---- MODULE Spec2Model ----
(***************************************************************************)
(* A model of the pgavlin/diff edit-script library: the diff producers     *)
(* (Text, Binary, Lines, myers.ComputeEdits) and the edit-script algebra   *)
(* (SortEdits, Validate, Apply, ApplyTo, lineEdits), with the engines      *)
(* under the producers (the sequence view and engine of package lcs, the   *)
(* operations of package myers).                                           *)
(*                                                                         *)
(* A text is a sequence of byte values (0..255); a Go slice expression     *)
(* s[i:j] is Slice(s, i, j).  An edit is a record [Start, End, New].       *)
(***************************************************************************)
EXTENDS Integers, Sequences, FiniteSets

VARIABLES src, dst, edits, pc, producer, vres, ares, tc,
          submitted, reader, writer, tres, lres, own,
          dres, wres, sres, ores

vars == <<src, dst, edits, pc, producer, vres, ares, tc,
          submitted, reader, writer, tres, lres, own,
          dres, wres, sres, ores>>

\* What the calls on streams and the line expansion read and write, and
\* the array that holds the slice a call returned.
ioVars == <<reader, writer, tres, lres, own>>

\* What the calls on the engines write: the diff list of the LCS engine, a
\* call of the sequence view, the trace and the operations of myers.
engVars == <<dres, wres, sres, ores>>

(***************************************************************************)
(* Bounds of the model.                                                    *)
(***************************************************************************)
\* most pieces of PiecesU in a text ('a', a two-byte rune, a stray 0xA9)
MaxLenU == 3
\* most pieces of PiecesL in a text (lines "a\n", "b\n" and an open "a")
MaxLenL == 3
\* longest caller-supplied edit script
MaxEdits == 3
\* longest sequence handed to the LCS engine
MaxSeqLen == 4

(***************************************************************************)
(* Go slices and small helpers.                                            *)
(***************************************************************************)
\* s[i:j] of Go: elements i..j-1, 0-based.
Slice(s, i, j) == SubSeq(s, i + 1, j)

\* s[i] of Go, 0-based.
At(s, i) == s[i + 1]

min(x, y) == IF x < y THEN x ELSE y

NL == 10

RECURSIVE Flatten(_)
\* text.Join(parts, ""): the concatenation of the parts.
Flatten(parts) ==
    IF parts = <<>> THEN <<>> ELSE Head(parts) \o Flatten(Tail(parts))

\* All sequences over S of length at most n.
SeqsUpTo(S, n) == UNION {[1..k -> S] : k \in 0..n}

(***************************************************************************)
(* The edit-script algebra.                                                *)
(***************************************************************************)
Edit(s, e, new) == [Start |-> s, End |-> e, New |-> new]

\* Less that looks at the starts only.
LessByStart(a, b) == a.Start < b.Start

\* editsSort.Less on two edits: order by (Start, End).
Less(a, b) ==
    IF a.Start - b.Start # 0 THEN a.Start - b.Start < 0 ELSE a.End < b.End

\* sort.IsSorted: no element is Less than its predecessor.
IsSorted(es) == \A i \in 2..Len(es) : ~Less(es[i], es[i - 1])

\* InsertStable with the comparison turned round, so that an edit goes
\* before the edits of the same (Start, End): a sort that is not stable.
RECURSIVE InsertBeforeEqual(_, _)
InsertBeforeEqual(sorted, e) ==
    IF sorted = <<>> THEN <<e>>
    ELSE IF ~Less(sorted[Len(sorted)], e)
         THEN Append(InsertBeforeEqual(SubSeq(sorted, 1, Len(sorted) - 1), e),
                     sorted[Len(sorted)])
         ELSE Append(sorted, e)

RECURSIVE InsertStable(_, _)
\* Insert e into the sorted list after every element that is not greater.
InsertStable(sorted, e) ==
    IF sorted = <<>> THEN <<e>>
    ELSE IF Less(e, sorted[Len(sorted)])
         THEN Append(InsertStable(SubSeq(sorted, 1, Len(sorted) - 1), e),
                     sorted[Len(sorted)])
         ELSE Append(sorted, e)

RECURSIVE StableSort(_)
\* sort.Stable under Less: the stable ordering of es.
StableSort(es) ==
    IF es = <<>> THEN <<>>
    ELSE InsertStable(StableSort(SubSeq(es, 1, Len(es) - 1)), es[Len(es)])

\* SortEdits: the slice after sort.Stable(editsSort{edits}).
SortEdits(es) == StableSort(es)

ErrNil == "nil"
ErrOutOfBounds == "diff has out-of-bounds edits"
ErrOverlapping == "diff has overlapping edits"

\* validateLoop with a size that counts the new texts only and forgets
\* the bytes the edits remove.
RECURSIVE validateLoopForgetsDeleted(_, _, _, _, _)
validateLoopForgetsDeleted(srcLen, es, i, size, lastEnd) ==
    IF i > Len(es) THEN [edits |-> es, size |-> size, err |-> ErrNil]
    ELSE LET edit == es[i] IN
         IF ~(0 <= edit.Start /\ edit.Start <= edit.End /\ edit.End <= srcLen)
         THEN [edits |-> <<>>, size |-> 0, err |-> ErrOutOfBounds]
         ELSE IF edit.Start < lastEnd
         THEN [edits |-> <<>>, size |-> 0, err |-> ErrOverlapping]
         ELSE validateLoopForgetsDeleted(srcLen, es, i + 1,
                                         size + Len(edit.New), edit.End)

\* validateLoop with the overlap test edit.Start <= lastEnd in place of
\* edit.Start < lastEnd.
RECURSIVE validateLoopRejectsAbutting(_, _, _, _, _)
validateLoopRejectsAbutting(srcLen, es, i, size, lastEnd) ==
    IF i > Len(es) THEN [edits |-> es, size |-> size, err |-> ErrNil]
    ELSE LET edit == es[i] IN
         IF ~(0 <= edit.Start /\ edit.Start <= edit.End /\ edit.End <= srcLen)
         THEN [edits |-> <<>>, size |-> 0, err |-> ErrOutOfBounds]
         ELSE IF edit.Start <= lastEnd
         THEN [edits |-> <<>>, size |-> 0, err |-> ErrOverlapping]
         ELSE validateLoopRejectsAbutting(srcLen, es, i + 1,
                           size + Len(edit.New) + edit.Start - edit.End,
                           edit.End)

RECURSIVE validateLoop(_, _, _, _, _)
\* The loop of Validate from edit i (1-based) on, with size and lastEnd.
validateLoop(srcLen, es, i, size, lastEnd) ==
    IF i > Len(es) THEN [edits |-> es, size |-> size, err |-> ErrNil]
    ELSE LET edit == es[i] IN
         IF ~(0 <= edit.Start /\ edit.Start <= edit.End /\ edit.End <= srcLen)
         THEN [edits |-> <<>>, size |-> 0, err |-> ErrOutOfBounds]
         ELSE IF edit.Start < lastEnd
         THEN [edits |-> <<>>, size |-> 0, err |-> ErrOverlapping]
         ELSE validateLoop(srcLen, es, i + 1,
                           size + Len(edit.New) + edit.Start - edit.End,
                           edit.End)

\* Validate(srcLen, edits): (sorted edits, size, err).
Validate(srcLen, es) ==
    LET sorted == IF ~IsSorted(es) THEN SortEdits(es) ELSE es
    IN validateLoop(srcLen, sorted, 1, srcLen, 0)

\* applyLoop with lastEnd set to edit.Start in place of edit.End, so the
\* replaced bytes are copied again.
RECURSIVE applyLoopKeepsLastEnd(_, _, _, _, _)
applyLoopKeepsLastEnd(s, es, i, out, lastEnd) ==
    IF i > Len(es) THEN out \o Slice(s, lastEnd, Len(s))
    ELSE LET edit == es[i]
             copied == IF lastEnd < edit.Start
                       THEN out \o Slice(s, lastEnd, edit.Start)
                       ELSE out
         IN applyLoopKeepsLastEnd(s, es, i + 1, copied \o edit.New, edit.Start)

RECURSIVE applyLoop(_, _, _, _, _)
\* The loop of Apply from edit i (1-based) on, with out and lastEnd; the
\* last step appends src[lastEnd:].
applyLoop(s, es, i, out, lastEnd) ==
    IF i > Len(es) THEN out \o Slice(s, lastEnd, Len(s))
    ELSE LET edit == es[i]
             copied == IF lastEnd < edit.Start
                       THEN out \o Slice(s, lastEnd, edit.Start)
                       ELSE out
         IN applyLoop(s, es, i + 1, copied \o edit.New, edit.End)

\* Apply(src, edits): (result, err); panicked records panic("wrong size").
Apply(s, es) ==
    LET v == Validate(Len(s), es)
        out == applyLoop(s, v.edits, 1, <<>>, 0)
    IN IF v.err # ErrNil
       THEN [out |-> <<>>, err |-> v.err, panicked |-> FALSE]
       ELSE [out |-> out, err |-> ErrNil, panicked |-> Len(out) # v.size]

(***************************************************************************)
(* ApplyTo and the streams it works on.  A reader holds the bytes it       *)
(* yields and its position; a read that reaches offset failAt fails (never,*)
(* when failAt is beyond the end of the data).  A writer keeps what it has *)
(* taken; it takes budget bytes in all and fails on the next one.          *)
(***************************************************************************)
Reader(data, failAt) == [data |-> data, failAt |-> failAt, pos |-> 0]
Writer(budget) == [budget |-> budget, out |-> <<>>]

ErrRead == "read failed"
ErrWrite == "write failed"
ErrEOF == "EOF"

\* io.CopyN(dst, src, n), io.CopyN(io.Discard, src, n) (keep = FALSE) and
\* io.Copy(dst, src) (toEOF = TRUE): the bytes read before the reader fails
\* or ends are written while the writer takes them; a write error comes
\* before the error of the next read.  n is the number of bytes written.
ioCopy(r, w, count, keep, toEOF) ==
    LET avail == Len(r.data) - r.pos
        clear == IF r.failAt >= r.pos THEN r.failAt - r.pos ELSE 0
        want == IF toEOF THEN avail ELSE min(count, avail)
        good == min(want, clear)
        rerr == IF ~toEOF /\ good = count THEN ErrNil
                ELSE IF r.pos + good = r.failAt THEN ErrRead
                ELSE IF toEOF THEN ErrNil
                ELSE ErrEOF
        room == w.budget - Len(w.out)
        take == IF keep THEN min(good, room) ELSE good
    IN [reader |-> [r EXCEPT !.pos = r.pos + good],
        writer |-> IF keep
                   THEN [w EXCEPT !.out = w.out \o Slice(r.data, r.pos, r.pos + take)]
                   ELSE w,
        n |-> take,
        err |-> IF take < good THEN ErrWrite ELSE rerr]

\* dst.Write(p).
ioWrite(w, p) ==
    LET room == w.budget - Len(w.out)
        take == min(Len(p), room)
    IN [writer |-> [w EXCEPT !.out = w.out \o Slice(p, 0, take)],
        n |-> take,
        err |-> IF take < Len(p) THEN ErrWrite ELSE ErrNil]

\* What ApplyTo returns, with the streams as it leaves them.
applyToResult(written, err, r, w) ==
    [written |-> written, err |-> err, reader |-> r, writer |-> w]

\* The end of ApplyTo: discard up to lastEnd, copy the rest.
applyToTail(r, w, cursor, lastEnd, written) ==
    LET skipped == ioCopy(r, w, lastEnd - cursor, FALSE, FALSE)
        rest == ioCopy(skipped.reader, skipped.writer, 0, TRUE, TRUE)
    IN IF skipped.err # ErrNil
       THEN applyToResult(written, skipped.err, skipped.reader, skipped.writer)
       ELSE applyToResult(written + rest.n, rest.err, rest.reader, rest.writer)

RECURSIVE applyToLoopNoDiscard(_, _, _, _, _, _, _)
\* applyToLoop without the discard of the bytes the edits before removed.
applyToLoopNoDiscard(es, i, r, w, cursor, lastEnd, written) ==
    IF i > Len(es) THEN applyToTail(r, w, lastEnd, lastEnd, written)
    ELSE LET edit == es[i]
             gap == lastEnd < edit.Start
             copied == ioCopy(r, w, edit.Start - lastEnd, TRUE, FALSE)
             r2 == IF gap THEN copied.reader ELSE r
             w2 == IF gap THEN copied.writer ELSE w
             written2 == IF gap THEN written + copied.n ELSE written
             wrote == ioWrite(w2, edit.New)
         IN IF gap /\ copied.err # ErrNil
            THEN applyToResult(written2, copied.err, r2, w2)
            ELSE IF wrote.err # ErrNil
            THEN applyToResult(written2 + wrote.n, wrote.err, r2, wrote.writer)
            ELSE applyToLoopNoDiscard(es, i + 1, r2, wrote.writer, edit.End,
                                      edit.End, written2 + wrote.n)

RECURSIVE applyToLoopCountsAsked(_, _, _, _, _, _, _)
\* applyToLoop that adds len(edit.New) to written whatever the writer took.
applyToLoopCountsAsked(es, i, r, w, cursor, lastEnd, written) ==
    IF i > Len(es) THEN applyToTail(r, w, cursor, lastEnd, written)
    ELSE LET edit == es[i]
             gap == lastEnd < edit.Start
             skipped == ioCopy(r, w, lastEnd - cursor, FALSE, FALSE)
             copied == ioCopy(skipped.reader, skipped.writer,
                              edit.Start - lastEnd, TRUE, FALSE)
             r2 == IF gap THEN copied.reader ELSE r
             w2 == IF gap THEN copied.writer ELSE w
             written2 == IF gap THEN written + copied.n ELSE written
             cursor2 == IF gap THEN edit.Start ELSE cursor
             wrote == ioWrite(w2, edit.New)
         IN IF gap /\ skipped.err # ErrNil
            THEN applyToResult(written, skipped.err, skipped.reader, skipped.writer)
            ELSE IF gap /\ copied.err # ErrNil
            THEN applyToResult(written2, copied.err, r2, w2)
            ELSE IF wrote.err # ErrNil
            THEN applyToResult(written2 + Len(edit.New), wrote.err, r2, wrote.writer)
            ELSE applyToLoopCountsAsked(es, i + 1, r2, wrote.writer, cursor2,
                                        edit.End, written2 + wrote.n)

RECURSIVE applyToLoop(_, _, _, _, _, _, _)
\* The loop of ApplyTo over the validated edits from edit i (1-based) on.
applyToLoop(es, i, r, w, cursor, lastEnd, written) ==
    IF i > Len(es) THEN applyToTail(r, w, cursor, lastEnd, written)
    ELSE LET edit == es[i]
             gap == lastEnd < edit.Start
             skipped == ioCopy(r, w, lastEnd - cursor, FALSE, FALSE)
             copied == ioCopy(skipped.reader, skipped.writer,
                              edit.Start - lastEnd, TRUE, FALSE)
             r2 == IF gap THEN copied.reader ELSE r
             w2 == IF gap THEN copied.writer ELSE w
             written2 == IF gap THEN written + copied.n ELSE written
             cursor2 == IF gap THEN edit.Start ELSE cursor
             wrote == ioWrite(w2, edit.New)
         IN IF gap /\ skipped.err # ErrNil
            THEN applyToResult(written, skipped.err, skipped.reader, skipped.writer)
            ELSE IF gap /\ copied.err # ErrNil
            THEN applyToResult(written2, copied.err, r2, w2)
            ELSE IF wrote.err # ErrNil
            THEN applyToResult(written2 + wrote.n, wrote.err, r2, wrote.writer)
            ELSE applyToLoop(es, i + 1, r2, wrote.writer, cursor2, edit.End,
                             written2 + wrote.n)

\* ApplyTo that starts on the streams before it validates the script.
ApplyToValidatesLate(r, w, srcLen, es) ==
    LET v == Validate(srcLen, es)
        first == ioCopy(r, w, 1, TRUE, FALSE)
    IN IF first.err # ErrNil
       THEN applyToResult(first.n, first.err, first.reader, first.writer)
       ELSE IF v.err # ErrNil THEN applyToResult(0, v.err, first.reader, first.writer)
       ELSE applyToLoop(v.edits, 1, r, w, 0, 0, 0)

\* ApplyTo(dst, src, srcLen, edits): (written, err) and the streams after.
ApplyTo(r, w, srcLen, es) ==
    LET v == Validate(srcLen, es)
    IN IF v.err # ErrNil THEN applyToResult(0, v.err, r, w)
       ELSE applyToLoop(v.edits, 1, r, w, 0, 0, 0)

(***************************************************************************)
(* lineEdits: the expansion of a script to whole lines.                    *)
(***************************************************************************)
\* text.LastIndexByte(s, c): the 0-based index of the last c in s, or -1.
LastIndexByte(s, c) ==
    LET hits == {i \in 0..(Len(s) - 1) : At(s, i) = c}
    IN IF hits = {} THEN -1 ELSE CHOOSE i \in hits : \A j \in hits : j <= i

\* text.IndexByte(s, c): the 0-based index of the first c in s, or -1.
IndexByte(s, c) ==
    LET hits == {i \in 0..(Len(s) - 1) : At(s, i) = c}
    IN IF hits = {} THEN -1 ELSE CHOOSE i \in hits : \A j \in hits : i <= j

\* text.ContainsAny(s, "\n").
ContainsNL(s) == \E i \in 1..Len(s) : s[i] = NL

\* expandEdit without the extension of the end to the end of the line.
expandEditStartOnly(edit, s) ==
    LET start == edit.Start
        delta == start - 1 - LastIndexByte(Slice(s, 0, start), NL)
    IN IF delta > 0
       THEN Edit(start - delta, edit.End, Slice(s, start - delta, start) \o edit.New)
       ELSE edit

\* expandEdit that takes back the new text with the start.
expandEditDropsPrefix(edit, s) ==
    LET start == edit.Start
        delta == start - 1 - LastIndexByte(Slice(s, 0, start), NL)
        left == IF delta > 0 THEN Edit(start - delta, edit.End, edit.New) ELSE edit
        end == edit.End
        nl == IndexByte(Slice(s, end, Len(s)), NL)
        newEnd == IF nl < 0 THEN Len(s) ELSE end + nl + 1
    IN Edit(left.Start, newEnd, left.New \o Slice(s, end, newEnd))

\* expandEdit(edit, src): the edit grown to the start of the line of its
\* start and to the end of the line of its end.
expandEdit(edit, s) ==
    LET start == edit.Start
        delta == start - 1 - LastIndexByte(Slice(s, 0, start), NL)
        left == IF delta > 0
                THEN Edit(start - delta, edit.End,
                          Slice(s, start - delta, start) \o edit.New)
                ELSE edit
        end == edit.End
        nl == IndexByte(Slice(s, end, Len(s)), NL)
        newEnd == IF nl < 0 THEN Len(s) ELSE end + nl + 1
    IN Edit(left.Start, newEnd, left.New \o Slice(s, end, newEnd))

RECURSIVE expandLoopNeverMerges(_, _, _, _, _)
\* expandLoop that flushes every edit, whatever lies between two edits.
expandLoopNeverMerges(s, es, i, prev, expanded) ==
    IF i > Len(es) THEN Append(expanded, expandEdit(prev, s))
    ELSE expandLoopNeverMerges(s, es, i + 1, es[i],
                               Append(expanded, expandEdit(prev, s)))

RECURSIVE expandLoop(_, _, _, _, _)
\* The expand loop of lineEdits from edit i (1-based) on: an edit on the
\* line prev ends on is merged into prev, another one flushes prev.
expandLoop(s, es, i, prev, expanded) ==
    IF i > Len(es) THEN Append(expanded, expandEdit(prev, s))
    ELSE LET edit == es[i]
             between == Slice(s, prev.End, edit.Start)
         IN IF ~ContainsNL(between)
            THEN expandLoop(s, es, i + 1,
                            Edit(prev.Start, edit.End,
                                 prev.New \o between \o edit.New),
                            expanded)
            ELSE expandLoop(s, es, i + 1, edit,
                            Append(expanded, expandEdit(prev, s)))

\* needsExpand that sends every script to expand: no fast path.
needsExpandAlways(s, edit) == TRUE

\* needsExpand with an insertion at the end of the text taken as aligned.
needsExpandButAtEOF(s, edit) ==
    /\ edit.Start < Len(s)
    /\ \/ edit.Start > 0 /\ At(s, edit.Start - 1) # NL
       \/ edit.End > 0 /\ At(s, edit.End - 1) # NL

\* The test of the fast path of lineEdits: the edit sends it to expand.
needsExpand(s, edit) ==
    \/ edit.Start >= Len(s)
    \/ edit.Start > 0 /\ At(s, edit.Start - 1) # NL
    \/ edit.End > 0 /\ At(s, edit.End - 1) # NL

\* lineEdits(src, edits): (edits, err).
lineEdits(s, es) ==
    LET v == Validate(Len(s), es)
    IN IF v.err # ErrNil THEN [edits |-> <<>>, err |-> v.err]
       ELSE IF \A i \in 1..Len(v.edits) : ~needsExpand(s, v.edits[i])
       THEN [edits |-> v.edits, err |-> ErrNil]
       ELSE [edits |-> expandLoop(s, v.edits, 2, v.edits[1], <<>>), err |-> ErrNil]

(***************************************************************************)
(* The arrays behind the slices of a call: the caller's, and the one the   *)
(* call allocates.                                                         *)
(***************************************************************************)
\* The arrays when a call is entered with the caller's slice es.
Heap(es) == [caller |-> es, fresh |-> <<>>]

\* Validate without the copy: edits names the caller's array throughout.
validateArrayNoCopy(es) == "caller"

\* The array that edits names in Validate after the test of the order:
\* a copy (append to a nil slice) when the slice is not sorted.
validateArray(es) == IF ~IsSorted(es) THEN "fresh" ELSE "caller"

\* The arrays after Validate(srcLen, es) and the array of the slice it
\* returns ("nil" with an error): an unsorted slice is copied to the array
\* edits names and SortEdits sorts that array in place; the loop only
\* reads.
validateMem(srcLen, es) ==
    LET at == validateArray(es)
        heap == IF ~IsSorted(es)
                THEN [Heap(es) EXCEPT ![at] = SortEdits(es)]
                ELSE Heap(es)
    IN [heap |-> heap,
        ret |-> IF validateLoop(srcLen, heap[at], 1, srcLen, 0).err = ErrNil
                THEN at ELSE "nil"]

\* The arrays after lineEdits(s, es) and the array of the slice it returns:
\* the fast path returns the slice of Validate; expand appends to a new
\* array, and prev, edit and the argument of expandEdit are copies of the
\* elements, so that merging and expanding write to no array.
lineEditsMem(s, es) ==
    LET v == validateMem(Len(s), es)
    IN IF v.ret = "nil" THEN v
       ELSE IF \A i \in 1..Len(v.heap[v.ret]) : ~needsExpand(s, v.heap[v.ret][i])
       THEN v
       ELSE [heap |-> v.heap, ret |-> "expanded"]

(***************************************************************************)
(* The sequence view: common prefix and suffix of two windows.             *)
(***************************************************************************)
RECURSIVE prefixLoopStopsShort(_, _, _, _)
\* prefixLoop that leaves the last element of the shorter side alone.
prefixLoopStopsShort(a, b, i, n) ==
    IF i < n - 1 /\ At(a, i) = At(b, i)
    THEN prefixLoopStopsShort(a, b, i + 1, n) ELSE i

RECURSIVE prefixLoop(_, _, _, _)
\* for i < n && a[i] == b[i] { i++ }
prefixLoop(a, b, i, n) ==
    IF i < n /\ At(a, i) = At(b, i) THEN prefixLoop(a, b, i + 1, n) ELSE i

\* commonPrefixLen*(a, b): the length of the common prefix of a and b.
commonPrefixLen(a, b) == prefixLoop(a, b, 0, min(Len(a), Len(b)))

RECURSIVE prefixReads(_, _, _, _)
\* The index pairs <<i, i>> at which the loop of commonPrefixLen* reads a
\* and b, from i on.
prefixReads(a, b, i, n) ==
    IF i < n
    THEN {<<i, i>>} \cup (IF At(a, i) = At(b, i)
                          THEN prefixReads(a, b, i + 1, n) ELSE {})
    ELSE {}

RECURSIVE suffixLoop(_, _, _, _)
\* for i < n && a[len(a)-1-i] == b[len(b)-1-i] { i++ }
suffixLoop(a, b, i, n) ==
    IF i < n /\ At(a, Len(a) - 1 - i) = At(b, Len(b) - 1 - i)
    THEN suffixLoop(a, b, i + 1, n) ELSE i

\* commonSuffixLen*(a, b): the length of the common suffix of a and b.
commonSuffixLen(a, b) == suffixLoop(a, b, 0, min(Len(a), Len(b)))

RECURSIVE suffixReads(_, _, _, _)
\* The index pairs at which the loop of commonSuffixLen* reads a and b.
suffixReads(a, b, i, n) ==
    IF i < n
    THEN {<<Len(a) - 1 - i, Len(b) - 1 - i>>}
         \cup (IF At(a, Len(a) - 1 - i) = At(b, Len(b) - 1 - i)
               THEN suffixReads(a, b, i + 1, n) ELSE {})
    ELSE {}

\* The methods of a sequences value over A and B: the call on the windows
\* A[ai:aj] and B[bi:bj], with the index pairs read, as offsets of A and B.
seqsCommonPrefixLen(A, B, ai, aj, bi, bj) ==
    LET a == Slice(A, ai, aj)
        b == Slice(B, bi, bj)
    IN [ai |-> ai, aj |-> aj, bi |-> bi, bj |-> bj, fn |-> "commonPrefixLen",
        k |-> commonPrefixLen(a, b),
        reads |-> {<<ai + r[1], bi + r[2]>> :
                      r \in prefixReads(a, b, 0, min(Len(a), Len(b)))}]

seqsCommonSuffixLen(A, B, ai, aj, bi, bj) ==
    LET a == Slice(A, ai, aj)
        b == Slice(B, bi, bj)
    IN [ai |-> ai, aj |-> aj, bi |-> bi, bj |-> bj, fn |-> "commonSuffixLen",
        k |-> commonSuffixLen(a, b),
        reads |-> {<<ai + r[1], bi + r[2]>> :
                      r \in suffixReads(a, b, 0, min(Len(a), Len(b)))}]

(***************************************************************************)
(* The LCS engine (package lcs): prefix and suffix trimming, then a split  *)
(* at an anchor, then merging of adjacent diffs.                           *)
(***************************************************************************)
Diff(s, e, rs, re) == [Start |-> s, End |-> e, ReplStart |-> rs, ReplEnd |-> re]

Reverse(s) == [i \in 1..Len(s) |-> s[Len(s) + 1 - i]]

RECURSIVE lcsRowStep(_, _, _, _)
\* One row of the LCS table: prev holds the LCS lengths of a prefix of a
\* against b[0:j], j = 0..len(b); the result holds those of the prefix
\* extended by e.  acc is the part of the new row built so far.
lcsRowStep(prev, e, b, acc) ==
    IF Len(acc) > Len(b) THEN acc
    ELSE LET j == Len(acc)
             v == IF b[j] = e THEN prev[j] + 1
                  ELSE IF prev[j + 1] >= acc[j] THEN prev[j + 1] ELSE acc[j]
         IN lcsRowStep(prev, e, b, Append(acc, v))

RECURSIVE lcsRow(_, _, _, _)
\* The last row of the LCS table of a against b, from element i of a on.
lcsRow(a, b, i, prev) ==
    IF i > Len(a) THEN prev
    ELSE lcsRow(a, b, i + 1, lcsRowStep(prev, a[i], b, <<0>>))

\* Entry j (0-based) is the length of a longest common subsequence of a
\* and b[0:j].
LCSRow(a, b) == lcsRow(a, b, 1, [j \in 1..(Len(b) + 1) |-> 0])

\* The length of a longest common subsequence of a and b.
LCSLen(a, b) == At(LCSRow(a, b), Len(b))

\* The position in lo..hi with the greatest score, the smallest on a tie.
argMax(score, lo, hi) ==
    CHOOSE y \in lo..hi :
        /\ \A z \in lo..hi : score[z] <= score[y]
        /\ \A z \in lo..(y - 1) : score[z] < score[y]

\* An anchor at the midpoints of both sides, with no search for the
\* position where the sequences align best.
anchorMidpoints(A, B, ai, aj, bi, bj) ==
    <<ai + ((aj - ai + 1) \div 2), bi + ((bj - bi) \div 2)>>

\* The anchor of a window with both sides non-empty: the midpoint of the
\* longer side, and the position on the other side where the two halves
\* flanking the anchor have the most in common, the smallest on a tie.
anchor(A, B, ai, aj, bi, bj) ==
    IF aj - ai >= bj - bi
    THEN LET x == ai + ((aj - ai + 1) \div 2)
             fwd == LCSRow(Slice(A, ai, x), Slice(B, bi, bj))
             bwd == LCSRow(Reverse(Slice(A, x, aj)), Reverse(Slice(B, bi, bj)))
             score == [y \in bi..bj |-> At(fwd, y - bi) + At(bwd, bj - y)]
         IN <<x, argMax(score, bi, bj)>>
    ELSE LET y == bi + ((bj - bi + 1) \div 2)
             fwd == LCSRow(Slice(B, bi, y), Slice(A, ai, aj))
             bwd == LCSRow(Reverse(Slice(B, y, bj)), Reverse(Slice(A, ai, aj)))
             score == [x \in ai..aj |-> At(fwd, x - ai) + At(bwd, aj - x)]
         IN <<argMax(score, ai, aj), y>>

RECURSIVE lcsWindowEmitsEmpty(_, _, _, _, _, _)
\* lcsWindow that emits a diff for a window trimmed to nothing.
lcsWindowEmitsEmpty(A, B, ai, aj, bi, bj) ==
    LET p == commonPrefixLen(Slice(A, ai, aj), Slice(B, bi, bj))
        ai2 == ai + p
        bi2 == bi + p
        s == commonSuffixLen(Slice(A, ai2, aj), Slice(B, bi2, bj))
        aj2 == aj - s
        bj2 == bj - s
    IN IF ai2 = aj2 \/ bi2 = bj2 THEN <<Diff(ai2, aj2, bi2, bj2)>>
       ELSE LET xy == anchor(A, B, ai2, aj2, bi2, bj2)
            IN lcsWindowEmitsEmpty(A, B, ai2, xy[1], bi2, xy[2])
                   \o lcsWindowEmitsEmpty(A, B, xy[1], aj2, xy[2], bj2)

RECURSIVE lcsWindow(_, _, _, _, _, _)
\* The diffs of the window A[ai:aj], B[bi:bj].
lcsWindow(A, B, ai, aj, bi, bj) ==
    LET p == commonPrefixLen(Slice(A, ai, aj), Slice(B, bi, bj))
        ai2 == ai + p
        bi2 == bi + p
        s == commonSuffixLen(Slice(A, ai2, aj), Slice(B, bi2, bj))
        aj2 == aj - s
        bj2 == bj - s
    IN IF ai2 = aj2 /\ bi2 = bj2 THEN <<>>
       ELSE IF ai2 = aj2 \/ bi2 = bj2 THEN <<Diff(ai2, aj2, bi2, bj2)>>
       ELSE LET xy == anchor(A, B, ai2, aj2, bi2, bj2)
            IN lcsWindow(A, B, ai2, xy[1], bi2, xy[2])
                   \o lcsWindow(A, B, xy[1], aj2, xy[2], bj2)

RECURSIVE mergeDiffs(_)
\* Adjacent diffs with end = next.start and replEnd = next.replStart become one.
mergeDiffs(ds) ==
    IF Len(ds) < 2 THEN ds
    ELSE IF ds[1].End = ds[2].Start /\ ds[1].ReplEnd = ds[2].ReplStart
    THEN mergeDiffs(<<Diff(ds[1].Start, ds[2].End, ds[1].ReplStart, ds[2].ReplEnd)>>
                    \o SubSeq(ds, 3, Len(ds)))
    ELSE <<ds[1]>> \o mergeDiffs(Tail(ds))

\* The diff list of the sequences A and B.
lcsDiff(A, B) == mergeDiffs(lcsWindow(A, B, 0, Len(A), 0, Len(B)))

\* lcs.DiffText, lcs.DiffRunes, lcs.DiffLines: the engine over bytes, runes, lines.
DiffText(a, b) == lcsDiff(a, b)
DiffRunes(a, b) == lcsDiff(a, b)
DiffLines(a, b) == lcsDiff(a, b)

(***************************************************************************)
(* UTF-8: decoding a text into runes and encoding runes into a text.       *)
(***************************************************************************)
RuneSelf == 128
RuneError == 65533

isCont(b) == 128 <= b /\ b <= 191

\* The number of bytes of the well-formed encoding at the head of s, 0 if none.
headWidth(s) ==
    LET b0 == s[1]
        n == Len(s)
    IN IF b0 < RuneSelf THEN 1
       ELSE IF 194 <= b0 /\ b0 <= 223
            THEN IF n >= 2 /\ isCont(s[2]) THEN 2 ELSE 0
       ELSE IF 224 <= b0 /\ b0 <= 239
            THEN IF n >= 3
                    /\ (IF b0 = 224 THEN 160 <= s[2] /\ s[2] <= 191
                        ELSE IF b0 = 237 THEN 128 <= s[2] /\ s[2] <= 159
                        ELSE isCont(s[2]))
                    /\ isCont(s[3])
                 THEN 3 ELSE 0
       ELSE IF 240 <= b0 /\ b0 <= 244
            THEN IF n >= 4
                    /\ (IF b0 = 240 THEN 144 <= s[2] /\ s[2] <= 191
                        ELSE IF b0 = 244 THEN 128 <= s[2] /\ s[2] <= 143
                        ELSE isCont(s[2]))
                    /\ isCont(s[3]) /\ isCont(s[4])
                 THEN 4 ELSE 0
       ELSE 0

\* The rune encoded by the first w bytes of s.
headRune(s, w) ==
    IF w = 1 THEN s[1]
    ELSE IF w = 2 THEN (s[1] - 192) * 64 + (s[2] - 128)
    ELSE IF w = 3 THEN (s[1] - 224) * 4096 + (s[2] - 128) * 64 + (s[3] - 128)
    ELSE (s[1] - 240) * 262144 + (s[2] - 128) * 4096 + (s[3] - 128) * 64 + (s[4] - 128)

RECURSIVE ToRunes(_)
\* text.ToRunes: the runes of s; a byte that starts no well-formed encoding
\* decodes to RuneError.
ToRunes(s) ==
    IF s = <<>> THEN <<>>
    ELSE LET w == headWidth(s) IN
         IF w = 0 THEN <<RuneError>> \o ToRunes(Tail(s))
         ELSE <<headRune(s, w)>> \o ToRunes(SubSeq(s, w + 1, Len(s)))

\* utf8.RuneLen: the number of bytes of the encoding of r, -1 if r is no valid rune.
RuneLen(r) ==
    IF r < 0 THEN -1
    ELSE IF r < 128 THEN 1
    ELSE IF r < 2048 THEN 2
    ELSE IF 55296 <= r /\ r <= 57343 THEN -1
    ELSE IF r < 65536 THEN 3
    ELSE IF r <= 1114111 THEN 4
    ELSE -1

\* The UTF-8 encoding of one rune; an invalid rune is encoded as RuneError.
EncodeRune(r) ==
    LET c == IF RuneLen(r) = -1 THEN RuneError ELSE r IN
    IF c < 128 THEN <<c>>
    ELSE IF c < 2048 THEN <<192 + (c \div 64), 128 + (c % 64)>>
    ELSE IF c < 65536
         THEN <<224 + (c \div 4096), 128 + ((c \div 64) % 64), 128 + (c % 64)>>
    ELSE <<240 + (c \div 262144), 128 + ((c \div 4096) % 64),
           128 + ((c \div 64) % 64), 128 + (c % 64)>>

\* text.ToString: the UTF-8 encoding of the runes.
ToString(runes) == Flatten([i \in 1..Len(runes) |-> EncodeRune(runes[i])])

RECURSIVE runesLen(_)
\* runesLen: the length in bytes of the UTF-8 encoding of runes.
runesLen(runes) ==
    IF runes = <<>> THEN 0 ELSE RuneLen(Head(runes)) + runesLen(Tail(runes))

\* isASCII: every byte is below utf8.RuneSelf.
isASCII(s) == \A i \in 1..Len(s) : ~(s[i] >= RuneSelf)

(***************************************************************************)
(* The producers of package diff: Text, Binary, Lines.                     *)
(***************************************************************************)
\* diffASCII with the range of the edit taken from d.ReplStart, d.ReplEnd.
diffASCIISwapped(before, after) ==
    LET diffs == DiffText(before, after)
    IN [i \in 1..Len(diffs) |->
           Edit(diffs[i].ReplStart, diffs[i].ReplEnd,
                Slice(after, diffs[i].ReplStart, diffs[i].ReplEnd))]

\* diffASCII with the new text cut out of after at the offsets of before.
diffASCIINewFromRange(before, after) ==
    LET diffs == DiffText(before, after)
    IN [i \in 1..Len(diffs) |->
           Edit(diffs[i].Start, diffs[i].End,
                Slice(after, diffs[i].Start, min(diffs[i].End, Len(after))))]

\* diffASCII: each diff (s, e, rs, re) becomes the edit (s, e, after[rs:re]).
diffASCII(before, after) ==
    LET diffs == DiffText(before, after)
    IN [i \in 1..Len(diffs) |->
           Edit(diffs[i].Start, diffs[i].End,
                Slice(after, diffs[i].ReplStart, diffs[i].ReplEnd))]

RECURSIVE diffRunesLoopRuneOffsets(_, _, _, _, _, _)
\* The loop of diffRunes with the rune offsets of the diffs kept as the
\* offsets of the edits.
diffRunesLoopRuneOffsets(before, after, diffs, i, lastEnd, utf8Len) ==
    IF i > Len(diffs) THEN <<>>
    ELSE LET d == diffs[i]
         IN <<Edit(d.Start, d.End, ToString(Slice(after, d.ReplStart, d.ReplEnd)))>>
            \o diffRunesLoopRuneOffsets(before, after, diffs, i + 1, d.End, d.End)

RECURSIVE diffRunesLoop(_, _, _, _, _, _)
\* The loop of diffRunes from diff i (1-based) on.
diffRunesLoop(before, after, diffs, i, lastEnd, utf8Len) ==
    IF i > Len(diffs) THEN <<>>
    ELSE LET d == diffs[i]
             start == utf8Len + runesLen(Slice(before, lastEnd, d.Start))
             end == start + runesLen(Slice(before, d.Start, d.End))
         IN <<Edit(start, end, ToString(Slice(after, d.ReplStart, d.ReplEnd)))>>
            \o diffRunesLoop(before, after, diffs, i + 1, d.End, end)

\* diffRunes: the diffs of the rune arrays, with rune offsets converted to
\* byte offsets.
diffRunes(before, after) ==
    diffRunesLoop(before, after, DiffRunes(before, after), 1, 0, 0)

\* diffText that looks at the bytes only, whatever the binary flag says.
diffTextIgnoresBinary(before, after, binary) ==
    IF before = after THEN <<>>
    ELSE IF isASCII(before) /\ isASCII(after)
    THEN diffASCII(before, after)
    ELSE diffRunes(ToRunes(before), ToRunes(after))

\* diffText: nothing for equal texts, the byte path for binary or ASCII
\* inputs, the rune path otherwise.
diffText(before, after, binary) ==
    IF before = after THEN <<>>
    ELSE IF binary \/ (isASCII(before) /\ isASCII(after))
    THEN diffASCII(before, after)
    ELSE diffRunes(ToRunes(before), ToRunes(after))

Text(before, after) == diffText(before, after, FALSE)

Binary(before, after) == diffText(before, after, TRUE)

RECURSIVE SplitAfter(_, _)
\* text.SplitAfter(t, "\n"): the pieces of t, each ending after a newline,
\* and the rest (possibly empty) as the last piece; cur is the piece begun.
SplitAfter(t, cur) ==
    IF t = <<>> THEN <<cur>>
    ELSE IF Head(t) = NL THEN <<Append(cur, NL)>> \o SplitAfter(Tail(t), <<>>)
    ELSE SplitAfter(Tail(t), Append(cur, Head(t)))

\* splitLines of package myers: the lines of t, an empty last line dropped.
splitLines(t) ==
    LET lines == SplitAfter(t, <<>>)
    IN IF Len(lines[Len(lines)]) = 0 THEN SubSeq(lines, 1, Len(lines) - 1) ELSE lines

\* splitLines of package diff: lines keep their terminator; the empty line
\* after a last newline is dropped.
diffSplitLines(t) ==
    LET lines == SplitAfter(t, <<>>)
    IN IF Len(lines[Len(lines)]) = 0 THEN SubSeq(lines, 1, Len(lines) - 1) ELSE lines

\* lineOffsets of package diff: entry i (0-based) is the byte offset of
\* line i; the last entry is the length of the text.
lineOffsets(lines) ==
    [i \in 1..(Len(lines) + 1) |-> Len(Flatten(SubSeq(lines, 1, i - 1)))]

\* Lines with the end of an edit taken from beforeLineOffsets[diff.Start].
LinesEndAtStart(before, after) ==
    LET beforeLines == diffSplitLines(before)
        afterLines == diffSplitLines(after)
        diffs == DiffLines(beforeLines, afterLines)
        beforeLineOffsets == lineOffsets(beforeLines)
        afterLineOffsets == lineOffsets(afterLines)
    IN [i \in 1..Len(diffs) |->
           Edit(At(beforeLineOffsets, diffs[i].Start),
                At(beforeLineOffsets, diffs[i].Start),
                Slice(after, At(afterLineOffsets, diffs[i].ReplStart),
                      At(afterLineOffsets, diffs[i].ReplEnd)))]

\* Lines: the line diffs, with line numbers mapped to byte offsets.
Lines(before, after) ==
    LET beforeLines == diffSplitLines(before)
        afterLines == diffSplitLines(after)
        diffs == DiffLines(beforeLines, afterLines)
        beforeLineOffsets == lineOffsets(beforeLines)
        afterLineOffsets == lineOffsets(afterLines)
    IN [i \in 1..Len(diffs) |->
           Edit(At(beforeLineOffsets, diffs[i].Start),
                At(beforeLineOffsets, diffs[i].End),
                Slice(after, At(afterLineOffsets, diffs[i].ReplStart),
                      At(afterLineOffsets, diffs[i].ReplEnd)))]

(***************************************************************************)
(* Package myers: the O(ND) line diff.  V and the rows of trace are        *)
(* 0-based Go slices held as sequences; nil is the empty sequence.         *)
(***************************************************************************)
OpDelete == "Delete"
OpInsert == "Insert"

\* s with s[i] = v, 0-based.
SetAt(s, i, v) == [s EXCEPT ![i + 1] = v]

\* slide with the bound x < M - 1 in place of x < M.
RECURSIVE slideStopsEarly(_, _, _, _)
slideStopsEarly(a, b, x, y) ==
    IF x < Len(a) - 1 /\ y < Len(b) /\ At(a, x) = At(b, y)
    THEN slideStopsEarly(a, b, x + 1, y + 1) ELSE x

RECURSIVE slide(_, _, _, _)
\* for x < M && y < N && text.Equal(a[x], b[y]) { x++; y++ }: the final x.
slide(a, b, x, y) ==
    IF x < Len(a) /\ y < Len(b) /\ At(a, x) = At(b, y)
    THEN slide(a, b, x + 1, y + 1) ELSE x

\* goesDown that prefers going right whenever both moves are open.
goesDownOnlyAtEdge(V, d, k, offset) == k = -d

\* The choice between going down and going right on diagonal k.
goesDown(V, d, k, offset) ==
    k = -d \/ (k # d /\ At(V, k - 1 + offset) < At(V, k + 1 + offset))

RECURSIVE sesDiagonals(_, _, _, _, _, _)
\* The loop over k of shortestEditSequence, from k on: V after it, and
\* whether (M, N) was reached.
sesDiagonals(a, b, V, d, k, offset) ==
    IF k > d THEN [V |-> V, found |-> FALSE]
    ELSE LET x0 == IF goesDown(V, d, k, offset)
                   THEN At(V, k + 1 + offset)
                   ELSE At(V, k - 1 + offset) + 1
             x == slide(a, b, x0, x0 - k)
             y == x - k
             V2 == SetAt(V, k + offset, x)
         IN IF x = Len(a) /\ y = Len(b) THEN [V |-> V2, found |-> TRUE]
            ELSE sesDiagonals(a, b, V2, d, k + 2, offset)

RECURSIVE sesRoundsGivesUpEarly(_, _, _, _, _, _)
\* sesRounds with the loop over d ended one round early (d < N+M).
sesRoundsGivesUpEarly(a, b, V, d, trace, offset) ==
    IF d > Len(a) + Len(b) - 1 THEN [trace |-> <<>>, offset |-> 0]
    ELSE LET r == sesDiagonals(a, b, V, d, -d, offset)
             trace2 == SetAt(trace, d, r.V)
         IN IF r.found THEN [trace |-> trace2, offset |-> offset]
            ELSE sesRoundsGivesUpEarly(a, b, r.V, d + 1, trace2, offset)

RECURSIVE sesRounds(_, _, _, _, _, _)
\* The loop over d of shortestEditSequence, from d on.
sesRounds(a, b, V, d, trace, offset) ==
    IF d > Len(a) + Len(b) THEN [trace |-> <<>>, offset |-> 0]
    ELSE LET r == sesDiagonals(a, b, V, d, -d, offset)
             trace2 == SetAt(trace, d, r.V)
         IN IF r.found THEN [trace |-> trace2, offset |-> offset]
            ELSE sesRounds(a, b, r.V, d + 1, trace2, offset)

\* shortestEditSequence(a, b): (trace, offset).
shortestEditSequence(a, b) ==
    LET M == Len(a)
        N == Len(b)
    IN sesRounds(a, b, [i \in 1..(2 * (N + M) + 1) |-> 0], 0,
                 [i \in 1..(N + M + 1) |-> <<>>], N + M)

RECURSIVE backtrackLoop(_, _, _, _, _, _)
\* The loop of backtrack: (snakes, x, y, d) when it ends.
backtrackLoop(trace, snakes, x, y, d, offset) ==
    IF ~(x > 0 /\ y > 0 /\ d > 0)
    THEN [snakes |-> snakes, x |-> x, y |-> y, d |-> d]
    ELSE LET V == At(trace, d) IN
         IF Len(V) = 0 THEN backtrackLoop(trace, snakes, x, y, d - 1, offset)
         ELSE LET k == x - y
                  kPrev == IF goesDown(V, d, k, offset) THEN k + 1 ELSE k - 1
                  x2 == At(V, kPrev + offset)
              IN backtrackLoop(trace, SetAt(snakes, d, <<x, y>>),
                               x2, x2 - kPrev, d - 1, offset)

\* backtrack(trace, x, y, offset): the snakes of the solution, by d.
backtrack(trace, x, y, offset) ==
    LET r == backtrackLoop(trace, [i \in 1..Len(trace) |-> <<>>],
                           x, y, Len(trace) - 1, offset)
    IN IF r.x < 0 \/ r.y < 0 THEN r.snakes
       ELSE SetAt(r.snakes, r.d, <<r.x, r.y>>)

RECURSIVE deleteRun(_, _, _, _)
\* for snake[0]-snake[1] > x-y { x++; if x == M { break } }: the final x.
deleteRun(snake, x, y, M) ==
    IF snake[1] - snake[2] > x - y
    THEN IF x + 1 = M THEN x + 1 ELSE deleteRun(snake, x + 1, y, M)
    ELSE x

RECURSIVE insertRun(_, _, _)
\* for snake[0]-snake[1] < x-y { y++ }: the final y.
insertRun(snake, x, y) ==
    IF snake[1] - snake[2] < x - y THEN insertRun(snake, x, y + 1) ELSE y

Operation(kind, s, e, rs, re) ==
    [Kind |-> kind, Start |-> s, End |-> e, ReplStart |-> rs, ReplEnd |-> re]

RECURSIVE operationsLoop(_, _, _, _, _, _, _)
\* The loop of Operations over the snakes from snake n (1-based) on, at
\* (x, y), with the operations added so far.
operationsLoop(snakes, n, x, y, M, N, solution) ==
    IF n > Len(snakes) THEN solution
    ELSE LET snake == snakes[n] IN
         IF Len(snake) < 2
         THEN operationsLoop(snakes, n + 1, x, y, M, N, solution)
         ELSE LET x1 == deleteRun(snake, x, y, M)
                  sol1 == IF snake[1] - snake[2] > x - y
                          THEN Append(solution, Operation(OpDelete, x, x1, y, 0))
                          ELSE solution
                  y1 == insertRun(snake, x1, y)
                  sol2 == IF snake[1] - snake[2] < x1 - y
                          THEN Append(sol1, Operation(OpInsert, x1, x1, y, y1))
                          ELSE sol1
                  x2 == IF x1 < snake[1] THEN snake[1] ELSE x1
                  y2 == y1 + (x2 - x1)
              IN IF x2 >= M /\ y2 >= N THEN sol2
                 ELSE operationsLoop(snakes, n + 1, x2, y2, M, N, sol2)

\* Operations(a, b): the deletions and insertions that convert a into b.
Operations(a, b) ==
    IF Len(a) = 0 /\ Len(b) = 0 THEN <<>>
    ELSE LET ses == shortestEditSequence(a, b)
             snakes == backtrack(ses.trace, Len(a), Len(b), ses.offset)
         IN operationsLoop(snakes, 1, 0, 0, Len(a), Len(b), <<>>)

RECURSIVE editsOfOps(_, _, _, _)
\* The loop of ComputeEdits over the operations from op i (1-based) on.
editsOfOps(ops, i, offsets, afterLines) ==
    IF i > Len(ops) THEN <<>>
    ELSE LET op == ops[i]
             start == At(offsets, op.Start)
             end == At(offsets, op.End)
             content == Flatten(Slice(afterLines, op.ReplStart, op.ReplEnd))
             rest == editsOfOps(ops, i + 1, offsets, afterLines)
         IN IF op.Kind = OpDelete THEN <<Edit(start, end, <<>>)>> \o rest
            ELSE IF op.Kind = OpInsert /\ Len(content) # 0
            THEN <<Edit(start, end, content)>> \o rest
            ELSE rest

\* The table of ComputeEdits mapping a line number to its byte offset.
myersLineOffsets(beforeLines) ==
    [i \in 1..(Len(beforeLines) + 1) |-> Len(Flatten(SubSeq(beforeLines, 1, i - 1)))]

\* ComputeEdits with line numbers used as byte offsets.
ComputeEditsInsertAtLineNumber(before, after) ==
    LET beforeLines == splitLines(before)
        afterLines == splitLines(after)
        ops == Operations(beforeLines, afterLines)
    IN editsOfOps(ops, 1, [i \in 1..(Len(beforeLines) + 1) |-> i - 1], afterLines)

\* myers.ComputeEdits(before, after).
ComputeEdits(before, after) ==
    LET beforeLines == splitLines(before)
        afterLines == splitLines(after)
        ops == Operations(beforeLines, afterLines)
    IN editsOfOps(ops, 1, myersLineOffsets(beforeLines), afterLines)

(***************************************************************************)
(* The table of test cases of package difftest (which holds the six        *)
(* end-to-end scenarios): input, target, edits and, where given, the       *)
(* line edits (<<>> where the table gives none).                           *)
(***************************************************************************)
TestCases == <<
    [Name |-> "empty",
     In |-> <<>>,
     Out |-> <<>>,
     Edits |-> <<>>,
     LineEdits |-> <<>>],
    [Name |-> "no_diff",
     In |-> <<103, 97, 114, 103, 97, 110, 116, 117, 97, 110, 10>>,
     Out |-> <<103, 97, 114, 103, 97, 110, 116, 117, 97, 110, 10>>,
     Edits |-> <<>>,
     LineEdits |-> <<>>],
    [Name |-> "replace_all",
     In |-> <<102, 114, 117, 105, 116, 10>>,
     Out |-> <<99, 104, 101, 101, 115, 101, 10>>,
     Edits |-> <<Edit(0, 5, <<99, 104, 101, 101, 115, 101>>)>>,
     LineEdits |-> <<Edit(0, 6, <<99, 104, 101, 101, 115, 101, 10>>)>>],
    [Name |-> "insert_rune",
     In |-> <<103, 111, 114, 100, 10>>,
     Out |-> <<103, 111, 117, 114, 100, 10>>,
     Edits |-> <<Edit(2, 2, <<117>>)>>,
     LineEdits |-> <<Edit(0, 5, <<103, 111, 117, 114, 100, 10>>)>>],
    [Name |-> "delete_rune",
     In |-> <<103, 114, 111, 97, 116, 10>>,
     Out |-> <<103, 111, 97, 116, 10>>,
     Edits |-> <<Edit(1, 2, <<>>)>>,
     LineEdits |-> <<Edit(0, 6, <<103, 111, 97, 116, 10>>)>>],
    [Name |-> "replace_rune",
     In |-> <<108, 111, 117, 100, 10>>,
     Out |-> <<108, 111, 114, 100, 10>>,
     Edits |-> <<Edit(2, 3, <<114>>)>>,
     LineEdits |-> <<Edit(0, 5, <<108, 111, 114, 100, 10>>)>>],
    [Name |-> "replace_partials",
     In |-> <<98, 108, 97, 110, 107, 101, 116, 10>>,
     Out |-> <<98, 117, 110, 107, 101, 114, 10>>,
     Edits |-> <<Edit(1, 3, <<117>>), Edit(6, 7, <<114>>)>>,
     LineEdits |-> <<Edit(0, 8, <<98, 117, 110, 107, 101, 114, 10>>)>>],
    [Name |-> "insert_line",
     In |-> <<49, 58, 32, 111, 110, 101, 10, 51, 58, 32, 116, 104, 114, 101, 101, 10>>,
     Out |-> <<49, 58, 32, 111, 110, 101, 10, 50, 58, 32, 116, 119, 111, 10, 51, 58, 32, 116, 104, 114, 101, 101, 10>>,
     Edits |-> <<Edit(7, 7, <<50, 58, 32, 116, 119, 111, 10>>)>>,
     LineEdits |-> <<>>],
    [Name |-> "replace_no_newline",
     In |-> <<65>>,
     Out |-> <<66>>,
     Edits |-> <<Edit(0, 1, <<66>>)>>,
     LineEdits |-> <<>>],
    [Name |-> "add_end",
     In |-> <<65>>,
     Out |-> <<65, 66>>,
     Edits |-> <<Edit(1, 1, <<66>>)>>,
     LineEdits |-> <<Edit(0, 1, <<65, 66>>)>>],
    [Name |-> "add_newline",
     In |-> <<65>>,
     Out |-> <<65, 10>>,
     Edits |-> <<Edit(1, 1, <<10>>)>>,
     LineEdits |-> <<Edit(0, 1, <<65, 10>>)>>],
    [Name |-> "delete_front",
     In |-> <<65, 10, 66, 10, 67, 10, 65, 10, 66, 10, 66, 10, 65, 10>>,
     Out |-> <<67, 10, 66, 10, 65, 10, 66, 10, 65, 10, 67, 10>>,
     Edits |-> <<Edit(0, 4, <<>>), Edit(6, 6, <<66, 10>>), Edit(10, 12, <<>>), Edit(14, 14, <<67, 10>>)>>,
     LineEdits |-> <<>>],
    [Name |-> "replace_last_line",
     In |-> <<65, 10, 66, 10>>,
     Out |-> <<65, 10, 67, 10, 10>>,
     Edits |-> <<Edit(2, 3, <<67, 10>>)>>,
     LineEdits |-> <<Edit(2, 4, <<67, 10, 10>>)>>],
    [Name |-> "multiple_replace",
     In |-> <<65, 10, 66, 10, 67, 10, 68, 10, 69, 10, 70, 10, 71, 10>>,
     Out |-> <<65, 10, 72, 10, 73, 10, 74, 10, 69, 10, 70, 10, 75, 10>>,
     Edits |-> <<Edit(2, 8, <<72, 10, 73, 10, 74, 10>>), Edit(12, 14, <<75, 10>>)>>,
     LineEdits |-> <<>>]
>>

(***************************************************************************)
(* The inputs of the model.                                                *)
(***************************************************************************)
\* The pieces a text of the multi-byte family is made of: 'a', the encoding
\* of U+00E9, and a stray continuation byte.
PiecesU == {<<97>>, <<195, 169>>, <<169>>}

\* The pieces a text of the line family is made of: two terminated lines
\* and an unterminated one.
PiecesL == {<<97, 10>>, <<98, 10>>, <<97>>}

TextsU == {Flatten(ps) : ps \in SeqsUpTo(PiecesU, MaxLenU)}

TextsL == {Flatten(ps) : ps \in SeqsUpTo(PiecesL, MaxLenL)}

\* The source buffers edit scripts are submitted against.
SrcSamples == {<<>>, <<97>>, <<97, 98>>}

\* The new text of the i-th submitted edit: empty, or a byte of its own.
NewTexts(i) == {<<>>, <<119 + i>>}

\* The edits a caller may submit as the i-th of a script against a source
\* of length L: on the short sources a start from -1 to L and an end from 0
\* to L+1 (ranges out of bounds and reversed ranges included), on the
\* longest one every range within the source.
EditsAt(L, i) ==
    IF L <= 1
    THEN {Edit(s, e, new) : s \in -1..L, e \in 0..(L + 1), new \in NewTexts(i)}
    ELSE {Edit(s, e, new) : s \in 0..L, e \in 0..L, new \in NewTexts(i)}

RECURSIVE Scripts(_, _)
\* The scripts of n edits against a source of length L.
Scripts(L, n) ==
    IF n = 0 THEN {<<>>}
    ELSE {Append(es, e) : es \in Scripts(L, n - 1), e \in EditsAt(L, n)}

NoValidate == [edits |-> <<>>, size |-> -1, err |-> "none"]
NoApply == [out |-> <<>>, err |-> "none", panicked |-> FALSE]
NoApplyTo == [written |-> 0, err |-> "none"]
NoLineEdits == [edits |-> <<>>, err |-> "none"]

\* No stream is involved: an empty reader and a writer never written to.
NoIO ==
    /\ reader = Reader(<<>>, 1)
    /\ writer = Writer(0)
    /\ tres = NoApplyTo
    /\ lres = NoLineEdits
    /\ own = "none"

NoWindow ==
    [ai |-> 0, aj |-> 0, bi |-> 0, bj |-> 0, fn |-> "none", k |-> -1, reads |-> {}]
NoTrace == [trace |-> <<>>, offset |-> -1]

\* No engine has been called.
NoEngine ==
    /\ dres = <<>>
    /\ wres = NoWindow
    /\ sres = NoTrace
    /\ ores = <<>>

(***************************************************************************)
(* Spec: a producer is run on a pair of texts and its edits are applied.   *)
(***************************************************************************)
Init ==
    /\ \E S \in {TextsU, TextsL} : src \in S /\ dst \in S
    /\ edits = <<>>
    /\ pc = "start"
    /\ producer = "none"
    /\ vres = NoValidate
    /\ ares = NoApply
    /\ tc = 0
    /\ submitted = edits
    /\ NoIO
    /\ NoEngine

Produce(name, es) ==
    /\ pc = "start"
    /\ edits' = es
    /\ producer' = name
    /\ pc' = "diffed"
    /\ UNCHANGED <<src, dst, vres, ares, tc, submitted, ioVars, engVars>>

RunText == Produce("Text", Text(src, dst))

RunBinary == Produce("Binary", Binary(src, dst))

RunLines == Produce("Lines", Lines(src, dst))

RunMyers == Produce("Myers", ComputeEdits(src, dst))

\* Apply(src, edits); vres is the result of the Validate call it makes.
RunApply ==
    /\ pc \in {"start", "diffed"}
    /\ producer # "none"
    /\ vres' = Validate(Len(src), edits)
    /\ ares' = Apply(src, edits)
    /\ edits' = validateMem(Len(src), edits).heap.caller
    /\ pc' = "applied"
    /\ UNCHANGED <<src, dst, producer, tc, submitted, ioVars, engVars>>

Next == RunText \/ RunBinary \/ RunLines \/ RunMyers \/ RunApply

Spec == Init /\ [][Next]_vars

(***************************************************************************)
(* SpecScript: a caller submits an edit script against a source buffer to  *)
(* Validate and to Apply.                                                  *)
(***************************************************************************)
InitScript ==
    /\ \/ /\ tc = 0
          /\ src \in SrcSamples
          /\ dst = <<>>
          /\ \E n \in 0..MaxEdits : edits \in Scripts(Len(src), n)
       \/ /\ tc \in 1..Len(TestCases)
          /\ src = TestCases[tc].In
          /\ dst = TestCases[tc].Out
          /\ edits \in {TestCases[tc].Edits, TestCases[tc].LineEdits}
          /\ (edits = <<>> => TestCases[tc].Edits = <<>>)
    /\ pc = "start"
    /\ producer = "caller"
    /\ vres = NoValidate
    /\ ares = NoApply
    /\ submitted = edits
    /\ NoIO
    /\ NoEngine

RunValidate ==
    /\ pc = "start"
    /\ producer = "caller"
    /\ vres' = Validate(Len(src), edits)
    /\ edits' = validateMem(Len(src), edits).heap.caller
    /\ own' = validateMem(Len(src), edits).ret
    /\ pc' = "validated"
    /\ UNCHANGED <<src, dst, producer, ares, tc, submitted,
                   reader, writer, tres, lres, engVars>>

NextScript == RunValidate \/ RunApply

SpecScript == InitScript /\ [][NextScript]_vars

(***************************************************************************)
(* SpecSort: a caller sorts a script in place with SortEdits, once and     *)
(* once more; submitted is the script as the caller built it.              *)
(***************************************************************************)
RunSortEdits ==
    /\ pc = "start"
    /\ producer = "caller"
    /\ edits' = SortEdits(edits)
    /\ pc' = "sorted"
    /\ UNCHANGED <<src, dst, producer, vres, ares, tc, submitted, ioVars, engVars>>

RunSortEditsAgain ==
    /\ pc = "sorted"
    /\ edits' = SortEdits(edits)
    /\ pc' = "resorted"
    /\ UNCHANGED <<src, dst, producer, vres, ares, tc, submitted, ioVars, engVars>>

NextSort == RunSortEdits \/ RunSortEditsAgain

SpecSort == InitScript /\ [][NextSort]_vars

(***************************************************************************)
(* SpecStream: a caller hands a script to ApplyTo with a reader over the   *)
(* source and a writer, to Apply, or to lineEdits.                         *)
(***************************************************************************)
\* The streams a caller passes with a script, as <<failAt, budget>>: with a
\* script Validate accepts, a reader failing at any offset or never and a
\* writer failing at any byte of the output or never; with a script it
\* rejects, streams that never fail and streams that fail at once.
FaultPlans(s, es) ==
    LET v == Validate(Len(s), es)
    IN IF v.err = ErrNil
       THEN (0..(Len(s) + 1)) \X (0..v.size)
       ELSE {<<Len(s) + 1, Len(s)>>, <<0, 0>>}

RunApplyTo ==
    /\ pc = "start"
    /\ producer = "caller"
    /\ \E plan \in FaultPlans(src, edits) :
          LET res == ApplyTo(Reader(src, plan[1]), Writer(plan[2]), Len(src), edits)
          IN /\ reader' = res.reader
             /\ writer' = res.writer
             /\ tres' = [written |-> res.written, err |-> res.err]
    /\ vres' = Validate(Len(src), edits)
    /\ edits' = validateMem(Len(src), edits).heap.caller
    /\ pc' = "streamed"
    /\ UNCHANGED <<src, dst, producer, ares, tc, submitted, lres, own,
                   engVars>>

\* lineEdits(src, edits); vres is the result of the Validate call it makes.
RunLineEdits ==
    /\ pc = "start"
    /\ producer = "caller"
    /\ lres' = lineEdits(src, edits)
    /\ vres' = Validate(Len(src), edits)
    /\ edits' = lineEditsMem(src, edits).heap.caller
    /\ own' = lineEditsMem(src, edits).ret
    /\ pc' = "expanded"
    /\ UNCHANGED <<src, dst, producer, ares, tc, submitted,
                   reader, writer, tres, engVars>>

NextStream == RunApplyTo \/ RunApply \/ RunLineEdits

SpecStream == InitScript /\ [][NextStream]_vars

(***************************************************************************)
(* SpecCaller: a caller hands one script to any of the calls that take a   *)
(* script: Validate, Apply, ApplyTo, lineEdits or SortEdits.               *)
(***************************************************************************)
NextCaller ==
    RunValidate \/ RunApply \/ RunApplyTo \/ RunLineEdits \/ RunSortEdits

SpecCaller == InitScript /\ [][NextCaller]_vars

(***************************************************************************)
(* SpecLineEdits: a caller hands a script Validate accepts to lineEdits    *)
(* (TestLineEdits) and applies the expanded script (TestApplyEdits).       *)
(***************************************************************************)
\* The sources of the line family: every text of 'a' and '\n' of up to
\* MaxLenL bytes, among them the empty text, texts with empty lines and
\* texts without a final newline.
LineSrcs == SeqsUpTo({97, NL}, MaxLenL)

RECURSIVE ScriptsInOrder(_, _, _, _)
\* The scripts of the edits i..n over a source of L bytes that Validate
\* accepts as they stand: each edit starts at or after lo, the end of the
\* edit before it.
ScriptsInOrder(lo, L, i, n) ==
    IF i > n THEN {<<>>}
    ELSE UNION {{<<Edit(t[1], t[2], t[3])>> \o rest :
                    rest \in ScriptsInOrder(t[2], L, i + 1, n)} :
                t \in {u \in (lo..L) \X (lo..L) \X NewTexts(i) : u[1] <= u[2]}}

\* A script in order, or the same edits in the reverse order.
InitLineEdits ==
    /\ \/ /\ tc = 0
          /\ src \in LineSrcs
          /\ dst = <<>>
          /\ \E n \in 0..MaxEdits :
                \E es \in ScriptsInOrder(0, Len(src), 1, n) :
                   edits \in {es, Reverse(es)}
       \/ /\ tc \in 1..Len(TestCases)
          /\ src = TestCases[tc].In
          /\ dst = TestCases[tc].Out
          /\ edits = TestCases[tc].Edits
    /\ pc = "start"
    /\ producer = "caller"
    /\ vres = NoValidate
    /\ ares = NoApply
    /\ submitted = edits
    /\ NoIO
    /\ NoEngine

\* Apply(src, expanded) on the script lineEdits returned.
RunApplyExpanded ==
    /\ pc = "expanded"
    /\ lres.err = ErrNil
    /\ ares' = Apply(src, lres.edits)
    /\ pc' = "reapplied"
    /\ UNCHANGED <<src, dst, edits, producer, vres, tc, submitted, ioVars, engVars>>

NextLineEdits == RunLineEdits \/ RunApplyExpanded

SpecLineEdits == InitLineEdits /\ [][NextLineEdits]_vars

(***************************************************************************)
(* SpecLCS: the LCS engine, and Binary above it, on a pair of sequences.   *)
(***************************************************************************)
\* The sequences of the engine: up to MaxSeqLen elements out of three.
LCSSeqs == SeqsUpTo({97, 98, 99}, MaxSeqLen)

InitLCS ==
    /\ src \in LCSSeqs
    /\ dst \in LCSSeqs
    /\ edits = <<>>
    /\ pc = "start"
    /\ producer = "none"
    /\ vres = NoValidate
    /\ ares = NoApply
    /\ tc = 0
    /\ submitted = edits
    /\ NoIO
    /\ NoEngine

\* lcs.DiffText(src, dst).
RunDiff ==
    /\ pc = "start"
    /\ dres' = DiffText(src, dst)
    /\ pc' = "compared"
    /\ UNCHANGED <<src, dst, edits, producer, vres, ares, tc, submitted,
                   ioVars, wres, sres, ores>>

NextLCS == RunDiff \/ RunBinary

SpecLCS == InitLCS /\ [][NextLCS]_vars

(***************************************************************************)
(* SpecSeqs: calls of commonPrefixLen and commonSuffixLen of a sequences   *)
(* value on windows of its two sequences.                                  *)
(***************************************************************************)
\* The sequences of a sequences value: up to MaxLenU elements out of two.
\* The six realizations run the same loops and differ in the type of the
\* elements and in how two of them are compared.
WindowSeqs == SeqsUpTo({97, 98}, MaxLenU)

InitSeqs ==
    /\ src \in WindowSeqs
    /\ dst \in WindowSeqs
    /\ edits = <<>>
    /\ pc = "start"
    /\ producer = "none"
    /\ vres = NoValidate
    /\ ares = NoApply
    /\ tc = 0
    /\ submitted = edits
    /\ NoIO
    /\ NoEngine

\* A call s.commonPrefixLen(ai, aj, bi, bj) or s.commonSuffixLen(...) on
\* windows within the sequences.
RunCommon(res) ==
    /\ pc = "start"
    /\ wres' = res
    /\ pc' = "measured"
    /\ UNCHANGED <<src, dst, edits, producer, vres, ares, tc, submitted,
                   ioVars, dres, sres, ores>>

RunCommonPrefixLen ==
    \E ai \in 0..Len(src), bi \in 0..Len(dst) :
       \E aj \in ai..Len(src), bj \in bi..Len(dst) :
          RunCommon(seqsCommonPrefixLen(src, dst, ai, aj, bi, bj))

RunCommonSuffixLen ==
    \E ai \in 0..Len(src), bi \in 0..Len(dst) :
       \E aj \in ai..Len(src), bj \in bi..Len(dst) :
          RunCommon(seqsCommonSuffixLen(src, dst, ai, aj, bi, bj))

NextSeqs == RunCommonPrefixLen \/ RunCommonSuffixLen

SpecSeqs == InitSeqs /\ [][NextSeqs]_vars

(***************************************************************************)
(* SpecMyers: myers.Operations, with the trace of shortestEditSequence     *)
(* under it, and myers.ComputeEdits on a pair of texts.                    *)
(***************************************************************************)
InitMyers ==
    /\ src \in TextsL
    /\ dst \in TextsL
    /\ edits = <<>>
    /\ pc = "start"
    /\ producer = "none"
    /\ vres = NoValidate
    /\ ares = NoApply
    /\ tc = 0
    /\ submitted = edits
    /\ NoIO
    /\ NoEngine

\* Operations(splitLines(src), splitLines(dst)); sres is the result of the
\* call of shortestEditSequence it makes, if it makes one.  A trace of nil
\* makes backtrack index snakes[-1]: the call ends in a run-time fault.
RunOperations ==
    /\ pc = "start"
    /\ LET beforeLines == splitLines(src)
           afterLines == splitLines(dst)
           r == IF Len(beforeLines) = 0 /\ Len(afterLines) = 0 THEN NoTrace
                ELSE shortestEditSequence(beforeLines, afterLines)
       IN /\ sres' = [trace |-> [d \in 1..Len(r.trace) |-> r.trace[d]],
                     offset |-> r.offset]
          /\ IF Len(beforeLines) + Len(afterLines) > 0 /\ r.trace = <<>>
             THEN ores' = <<>> /\ pc' = "fault"
             ELSE ores' = Operations(beforeLines, afterLines) /\ pc' = "operated"
    /\ UNCHANGED <<src, dst, edits, producer, vres, ares, tc, submitted,
                   ioVars, dres, wres>>

NextMyers == RunOperations \/ RunMyers

SpecMyers == InitMyers /\ [][NextMyers]_vars

(***************************************************************************)
(* Properties.                                                             *)
(***************************************************************************)
ApplyOK == ares.err = ErrNil /\ ~ares.panicked

\* C1: for all byte strings A and B, Apply(A, Binary(A, B)) returns no
\* error and its result equals B.
C1_BinaryRoundTrip ==
    (producer = "Binary" /\ pc = "applied") => (ApplyOK /\ ares.out = dst)

C1_Witness ==
    /\ producer = "Binary" /\ pc = "applied"
    /\ Len(edits) >= 2 /\ ~isASCII(src) /\ ares.out = dst

RECURSIVE validUTF8(_)
\* s is well-formed UTF-8.
validUTF8(s) ==
    \/ s = <<>>
    \/ /\ headWidth(s) > 0
       /\ validUTF8(SubSeq(s, headWidth(s) + 1, Len(s)))

\* C2 as stated: for all A and B not both ASCII, ill-formed UTF-8 included,
\* Apply(A, Text(A, B)) returns no error and its result equals B.
C2_TextRoundTripAnyBytes ==
    (producer = "Text" /\ pc = "applied" /\ ~(isASCII(src) /\ isASCII(dst)))
        => (ApplyOK /\ ares.out = dst)

\* The byte offset at which line k (0-based) of a list of lines starts:
\* the sum of the lengths of the lines before it.
LineStart(lines, k) == Len(Flatten(SubSeq(lines, 1, k)))

\* C3: for all A and B, Apply(A, Lines(A, B)) returns no error and equals B,
\* and each line-level diff {s, e, rs, re} appears in the result as the edit
\* {offset_A[s], offset_A[e], B[offset_B[rs] : offset_B[re]]}.
C3_LinesRoundTripAndMapping ==
    (producer = "Lines" /\ pc \in {"diffed", "applied"}) =>
        LET beforeLines == diffSplitLines(src)
            afterLines == diffSplitLines(dst)
            diffs == DiffLines(beforeLines, afterLines)
        IN /\ Len(edits) = Len(diffs)
           /\ \A i \in 1..Len(diffs) :
                 /\ edits[i].Start = LineStart(beforeLines, diffs[i].Start)
                 /\ edits[i].End = LineStart(beforeLines, diffs[i].End)
                 /\ edits[i].New =
                        Slice(dst, LineStart(afterLines, diffs[i].ReplStart),
                              LineStart(afterLines, diffs[i].ReplEnd))
           /\ pc = "applied" => (ApplyOK /\ ares.out = dst)

C3_Witness ==
    /\ producer = "Lines" /\ pc = "applied"
    /\ Len(edits) >= 2 /\ ares.out = dst
    /\ \E i \in 1..Len(edits) : edits[i].Start > 0 /\ edits[i].New # <<>>

\* C4: for all texts A and B, Apply(A, myers.ComputeEdits(A, B)) returns no
\* error and equals B.
C4_MyersRoundTrip ==
    (producer = "Myers" /\ pc = "applied") => (ApplyOK /\ ares.out = dst)

C4_Witness ==
    /\ producer = "Myers" /\ pc = "applied"
    /\ Len(edits) >= 2 /\ ares.out = dst
    /\ \E i \in 1..Len(edits) : edits[i].New # <<>>
    /\ \E i \in 1..Len(edits) : edits[i].New = <<>>

\* C5: for every text A, Text(A, A), Binary(A, A), Lines(A, A) and
\* myers.ComputeEdits(A, A) are empty, and Apply(A, []) equals A.
C5_EmptyFixedPoint ==
    /\ (pc \in {"diffed", "applied"} /\ src = dst) => edits = <<>>
    /\ (pc = "applied" /\ edits = <<>>) => (ApplyOK /\ ares.out = src)

C5_Witness ==
    /\ producer = "Myers" /\ pc = "applied"
    /\ src = dst /\ Len(splitLines(src)) >= 2
    /\ edits = <<>> /\ ares.out = src

\* An edit script is clean for a source of length n: every edit has
\* 0 <= Start <= End <= n, the script is already sorted by (Start, End), and
\* each edit starts at or after the end of the one before it.
CleanScript(es, n) ==
    /\ \A i \in 1..Len(es) :
          0 <= es[i].Start /\ es[i].Start <= es[i].End /\ es[i].End <= n
    /\ \A i \in 2..Len(es) :
          \/ es[i - 1].Start < es[i].Start
          \/ es[i - 1].Start = es[i].Start /\ es[i - 1].End <= es[i].End
    /\ \A i \in 2..Len(es) : es[i].Start >= es[i - 1].End

\* C6 as stated: the output of every producer (Text, Binary, Lines,
\* myers.ComputeEdits) on any inputs is within the bounds of A, sorted by
\* (Start, End) and non-overlapping, and passes Validate.
C6_ProducersOutputValid ==
    pc = "diffed" =>
        /\ CleanScript(edits, Len(src))
        /\ Validate(Len(src), edits).err = ErrNil

\* The part of C6 the code keeps: the output of Binary, Lines and
\* myers.ComputeEdits on any inputs, and of Text on well-formed UTF-8, is
\* clean and passes Validate.
C6_ValidOutsideIllFormedText ==
    (pc = "diffed" /\ (producer = "Text" => (validUTF8(src) /\ validUTF8(dst))))
        => /\ CleanScript(edits, Len(src))
           /\ Validate(Len(src), edits).err = ErrNil

\* The part of C2 the code keeps: Text round-trips on well-formed UTF-8.
C2_TextRoundTripWellFormed ==
    (producer = "Text" /\ pc = "applied" /\ validUTF8(src) /\ validUTF8(dst))
        => (ApplyOK /\ ares.out = dst)

(***************************************************************************)
(* Properties of Validate and Apply on submitted scripts, stated against   *)
(* an order and a splice defined independently of the code's loops.        *)
(***************************************************************************)
\* a comes before b in the order by (Start, End).
KeyBefore(a, b) == a.Start < b.Start \/ (a.Start = b.Start /\ a.End < b.End)

SameKey(a, b) == a.Start = b.Start /\ a.End = b.End

\* The place of edit k in the stable ordering of a script: one more than
\* the number of edits that come before it in (Start, End) order or have
\* the same (Start, End) and come before it in the input.
Rank(es, k) ==
    1 + Cardinality({m \in 1..Len(es) :
                        \/ KeyBefore(es[m], es[k])
                        \/ SameKey(es[m], es[k]) /\ m < k})

SortedForm(es) ==
    [i \in 1..Len(es) |-> es[CHOOSE k \in 1..Len(es) : Rank(es, k) = i]]

InBounds(e, n) == 0 <= e.Start /\ e.Start <= e.End /\ e.End <= n

\* The positions of a sorted script that violate the acceptance criterion.
Violations(s, n) ==
    {i \in 1..Len(s) :
        ~InBounds(s[i], n) \/ (i > 1 /\ s[i].Start < s[i - 1].End)}

\* The error the first violation in sorted order calls for.
ExpectedErr(es, n) ==
    LET s == SortedForm(es)
        bad == Violations(s, n)
    IN IF bad = {} THEN ErrNil
       ELSE LET i == CHOOSE k \in bad : \A m \in bad : k <= m
            IN IF ~InBounds(s[i], n) THEN ErrOutOfBounds ELSE ErrOverlapping

RECURSIVE SumOver(_, _)
SumOver(f, n) == IF n = 0 THEN 0 ELSE f[n] + SumOver(f, n - 1)

\* The length the source has after the edits: each edit trades End - Start
\* source bytes for Len(New) bytes.
ExpectedSize(es, n) ==
    n + SumOver([i \in 1..Len(es) |-> Len(es[i].New) - (es[i].End - es[i].Start)],
                Len(es))

\* C7: for every script accepted by Validate the computed size is
\* non-negative and equals the length of Apply's output, so Apply's buffer
\* size check never panics.
C7_SizeIsOutputLength ==
    (pc \in {"validated", "applied"} /\ vres.err = ErrNil) =>
        /\ vres.size >= 0
        /\ vres.size = ExpectedSize(edits, Len(src))
        /\ pc = "applied" =>
              /\ ~ares.panicked /\ ares.err = ErrNil
              /\ Len(ares.out) = vres.size

C7_Witness ==
    /\ pc = "applied" /\ vres.err = ErrNil
    /\ Len(edits) >= 2
    /\ \E i \in 1..Len(edits) : edits[i].Start < edits[i].End
    /\ \E i \in 1..Len(edits) : edits[i].New # <<>>
    /\ Len(ares.out) = vres.size /\ vres.size # Len(src)

\* C8: Validate accepts exactly the scripts that, after stable sorting by
\* (Start, End), have every edit within 0 <= Start <= End <= n and starting
\* at or after the end of the one before; the error is decided by the first
\* violation in sorted order; two deletions with the same start are rejected
\* as overlapping, several insertions at one offset are accepted.
C8_ValidateAcceptance ==
    pc = "validated" =>
        /\ vres.err = ExpectedErr(edits, Len(src))
        /\ vres.err = ErrNil => vres.edits = SortedForm(edits)
        /\ \A i, j \in 1..Len(edits) :
              (/\ i # j
               /\ edits[i].Start = edits[j].Start
               /\ edits[i].Start < edits[i].End
               /\ edits[j].Start < edits[j].End
               /\ \A k \in 1..Len(edits) : InBounds(edits[k], Len(src)))
                  => vres.err = ErrOverlapping
        /\ (/\ \A k \in 1..Len(edits) : InBounds(edits[k], Len(src))
            /\ \A k \in 1..Len(edits) :
                  edits[k].Start = edits[k].End /\ edits[k].Start = edits[1].Start)
              => vres.err = ErrNil

C8_Witness ==
    /\ pc = "validated" /\ vres.err = ErrOverlapping
    /\ Len(edits) = 3 /\ ~IsSorted(edits)
    /\ \E i, j \in 1..3 : /\ i # j
                          /\ edits[i].Start = edits[j].Start
                          /\ edits[i].Start < edits[i].End
                          /\ edits[j].Start < edits[j].End

\* The splice of a sorted, accepted script into s: the source up to the
\* first edit, then for each edit its new text followed by the source from
\* its end to the start of the next edit (to the end of s for the last).
Splice(s, es) ==
    IF es = <<>> THEN s
    ELSE Slice(s, 0, es[1].Start) \o
         Flatten([i \in 1..Len(es) |->
                     es[i].New \o
                     Slice(s, es[i].End,
                           IF i < Len(es) THEN es[i + 1].Start ELSE Len(s))])

\* C9: for an accepted script Apply returns the source with each range
\* [Start, End) replaced by New, the text between edits copied unchanged
\* and the edits taken in sorted order; on every case of the test table
\* (the six end-to-end scenarios among them) the edits and the line edits
\* turn the input into the target.
C9_ApplySplices ==
    pc = "applied" =>
        /\ vres.err = ErrNil =>
              ares = [out |-> Splice(src, SortedForm(edits)),
                      err |-> ErrNil, panicked |-> FALSE]
        /\ vres.err # ErrNil => (ares.err = vres.err /\ ares.out = <<>>)
        /\ tc # 0 => (ares.err = ErrNil /\ ares.out = TestCases[tc].Out)

C9_Witness ==
    /\ pc = "applied" /\ tc # 0 /\ Len(edits) >= 3
    /\ edits = TestCases[tc].Edits
    /\ ares.out = dst /\ ares.out # src

\* The position in the output of the new text of a tagged edit.
TagPos(out, e) == CHOOSE k \in 1..Len(out) : out[k] = e.New[1]

IsPermutation(es, fs) ==
    /\ Len(es) = Len(fs)
    /\ \A i \in 1..Len(es) :
          Cardinality({k \in 1..Len(es) : es[k] = es[i]})
              = Cardinality({k \in 1..Len(fs) : fs[k] = es[i]})

\* C11: after SortEdits the slice is a permutation of the submitted script
\* in ascending (Start, End) order in which edits of equal (Start, End) keep
\* their submission order (so insertions at one offset stay in order and an
\* insertion precedes a deletion at the same start); sorting a sorted slice
\* leaves it unchanged, and so does sorting a second time.
C11_SortStableIdempotent ==
    (producer = "caller" /\ pc \in {"sorted", "resorted"}) =>
        /\ IsPermutation(edits, submitted)
        /\ \A i \in 2..Len(edits) : ~KeyBefore(edits[i], edits[i - 1])
        /\ edits = SortedForm(submitted)
        /\ \A i, j \in 1..Len(edits) :
              (/\ i < j
               /\ edits[i].Start = edits[j].Start
               /\ edits[i].End > edits[i].Start)
                  => edits[j].End > edits[j].Start
        /\ (\A i \in 2..Len(submitted) :
               ~KeyBefore(submitted[i], submitted[i - 1]))
              => edits = submitted

C11_Witness ==
    /\ pc = "resorted" /\ tc = 0
    /\ Len(submitted) = 3 /\ edits # submitted
    /\ SameKey(submitted[1], submitted[3])
    /\ submitted[1].New # submitted[3].New
    /\ KeyBefore(submitted[2], submitted[1])
    /\ edits = <<submitted[2], submitted[1], submitted[3]>>

\* The streams of the ApplyTo call never fail.
NoFault == reader.failAt > Len(src) /\ writer.budget >= vres.size

\* C12: for a valid script, a reader yielding exactly the bytes of src and
\* no failing I/O operation, what ApplyTo writes equals Apply(src, edits),
\* also when edits abut or share a start offset.
C12_StreamingParity ==
    (pc = "streamed" /\ vres.err = ErrNil /\ NoFault) =>
        /\ tres.err = ErrNil
        /\ Apply(src, edits).err = ErrNil
        /\ writer.out = Apply(src, edits).out
        /\ writer.out = Splice(src, SortedForm(edits))

C12_Witness ==
    /\ pc = "streamed" /\ vres.err = ErrNil /\ NoFault
    /\ Len(edits) = 3 /\ tres.err = ErrNil
    /\ \E i, j \in 1..3 : i # j /\ edits[i].Start = edits[j].Start
    /\ \E i, j \in 1..3 : /\ edits[i].Start < edits[i].End
                          /\ edits[j].Start = edits[i].End
    /\ writer.out = Apply(src, edits).out /\ writer.out # src

\* The number of bytes written before ApplyTo reads offset f of the source:
\* the result of the edits that end at or before g on the source before g,
\* where g is the first offset from f on that no edit removes.
Landing(s, es, f) ==
    LET removed(x) == \E i \in 1..Len(es) : es[i].Start <= x /\ x < es[i].End
        g == CHOOSE x \in f..Len(s) :
                 ~removed(x) /\ \A y \in f..(x - 1) : removed(y)
    IN Len(Splice(Slice(s, 0, g), SelectSeq(es, LAMBDA e : e.End <= g)))

C14_InvalidNoEffect ==
    (pc \in {"applied", "expanded", "streamed"} /\ vres.err # ErrNil) =>
        /\ vres.err \in {ErrOutOfBounds, ErrOverlapping}
        /\ pc = "applied" =>
              ares = [out |-> <<>>, err |-> vres.err, panicked |-> FALSE]
        /\ pc = "expanded" => lres = [edits |-> <<>>, err |-> vres.err]
        /\ pc = "streamed" =>
              /\ tres = [written |-> 0, err |-> vres.err]
              /\ reader.pos = 0
              /\ writer.out = <<>>

C14_Witness ==
    /\ pc = "streamed" /\ vres.err = ErrOverlapping
    /\ reader.failAt = 0 /\ writer.budget = 0
    /\ src # <<>>
    /\ \E i \in 1..Len(edits) : edits[i].New # <<>>
    /\ tres.written = 0 /\ writer.out = <<>>

(***************************************************************************)
(* lineEdits.                                                              *)
(***************************************************************************)
\* Offset k of s is the start of a line: 0, or just after a newline.
AtLineStart(s, k) == k = 0 \/ (k > 0 /\ k <= Len(s) /\ s[k] = NL)

\* lineEdits has run on a script Validate accepts.
Expanded == pc \in {"expanded", "reapplied"} /\ vres.err = ErrNil

\* C15: for a script valid for src, lineEdits succeeds and Apply of the
\* expanded script gives what Apply of the script gives, merged edits, the
\* empty source and sources without a final newline included; on the test
\* table that is the target text.
C15_ExpansionPreservesMeaning ==
    Expanded =>
        /\ lres.err = ErrNil
        /\ pc = "reapplied" =>
              /\ ares = Apply(src, submitted)
              /\ ares.err = ErrNil /\ ~ares.panicked
              /\ tc # 0 => ares.out = TestCases[tc].Out

\* Two edits merged into one on a source without a final newline.
C15_Witness ==
    /\ Expanded /\ pc = "reapplied" /\ tc = 0
    /\ Len(submitted) = 3 /\ Len(lres.edits) = 2
    /\ src # <<>> /\ src[Len(src)] # NL
    /\ ares.out = Splice(src, SortedForm(submitted)) /\ ares.out # src

\* C16 as stated: every edit of the expanded script starts at 0 or just
\* after a newline and ends at len(src) or just after a newline.
C16_EndsAfterNewlineOrAtEOF ==
    Expanded =>
        \A i \in 1..Len(lres.edits) :
            LET e == lres.edits[i]
            IN /\ AtLineStart(src, e.Start)
               /\ e.End = Len(src) \/ (e.End > 0 /\ AtLineStart(src, e.End))

\* C16 amended: every edit of the expanded script starts and ends at the
\* start of a line or at len(src); the end is offset 0 of a non-empty
\* source only for an insertion at offset 0 of a script returned as-is.
C16_LineAligned ==
    Expanded =>
        \A i \in 1..Len(lres.edits) :
            LET e == lres.edits[i]
            IN /\ AtLineStart(src, e.Start)
               /\ e.End = Len(src) \/ AtLineStart(src, e.End)
               /\ (e.End = 0 /\ src # <<>>) =>
                     (e.Start = 0 /\ lres.edits = SortedForm(submitted))

\* An edit inside a line grown at both ends.
C16_Witness ==
    /\ Expanded /\ tc = 0 /\ Len(submitted) = 1 /\ Len(lres.edits) = 1
    /\ lres.edits[1].Start < submitted[1].Start
    /\ lres.edits[1].End > submitted[1].End
    /\ lres.edits[1].End < Len(src)

\* C17: the expanded script of a valid script is sorted by (Start, End),
\* within the bounds of src and non-overlapping: Validate accepts it and
\* leaves it as it is.
C17_ExpandedIsValid ==
    Expanded =>
        /\ \A i \in 1..Len(lres.edits) : InBounds(lres.edits[i], Len(src))
        /\ \A i \in 2..Len(lres.edits) :
              /\ lres.edits[i - 1].End <= lres.edits[i].Start
              /\ ~KeyBefore(lres.edits[i], lres.edits[i - 1])
        /\ LET v == Validate(Len(src), lres.edits)
           IN v.err = ErrNil /\ v.edits = lres.edits

\* Three edits, the first two on one line: two expanded edits that abut.
C17_Witness ==
    /\ Expanded /\ tc = 0
    /\ Len(submitted) = 3 /\ Len(lres.edits) = 2
    /\ lres.edits # SortedForm(submitted)
    /\ lres.edits[1].End = lres.edits[2].Start

\* The edit is an insertion at the end of the text.
InsertionAtEOF(s, e) == e.Start >= Len(s)

\* The edit starts and ends at the start of a line.
Aligned(s, e) == AtLineStart(s, e.Start) /\ AtLineStart(s, e.End)

C19_PinnedLineEdits ==
    pc = "expanded" =>
        /\ (src = <<103, 111, 114, 100, 10>> /\ submitted = <<Edit(2, 2, <<117>>)>>)
              => lres = [edits |-> <<Edit(0, 5, <<103, 111, 117, 114, 100, 10>>)>>,
                         err |-> ErrNil]
        /\ (src = <<49, 58, 32, 111, 110, 101, 10, 51, 58, 32, 116, 104, 114, 101, 101, 10>>
            /\ submitted = <<Edit(7, 7, <<50, 58, 32, 116, 119, 111, 10>>)>>)
              => lres = [edits |-> submitted, err |-> ErrNil]
        /\ (src = <<65>> /\ submitted = <<Edit(1, 1, <<10>>)>>)
              => lres = [edits |-> <<Edit(0, 1, <<65, 10>>)>>, err |-> ErrNil]
        /\ (src = <<65, 10, 66, 10>> /\ submitted = <<Edit(2, 3, <<67, 10>>)>>)
              => lres = [edits |-> <<Edit(2, 4, <<67, 10, 10>>)>>, err |-> ErrNil]

\* The third pinned case, after lineEdits.
C19_Witness ==
    /\ pc = "expanded"
    /\ src = <<65>> /\ submitted = <<Edit(1, 1, <<10>>)>>
    /\ lres.edits = <<Edit(0, 1, <<65, 10>>)>>

(***************************************************************************)
(* Text on well-formed UTF-8.                                              *)
(***************************************************************************)
\* The offsets of s on a code-point boundary: 0, len(s), and the offset of
\* every byte that is not a continuation byte.
RuneBoundaries(s) ==
    {k \in 0..Len(s) : k = 0 \/ k = Len(s) \/ ~isCont(At(s, k))}

\* The length in bytes of the encoding of the first k runes.
BytesBefore(runes, k) == Len(ToString(SubSeq(runes, 1, k)))

\* C20: for well-formed UTF-8 texts A and B every start and every end of
\* an edit of Text(A, B) is an offset of A on a code-point boundary, and
\* it is the length of the encoding of the runes of A before the position
\* of the diff in the rune sequence.
C20_RuneBoundaries ==
    (producer = "Text" /\ pc = "diffed" /\ validUTF8(src) /\ validUTF8(dst)) =>
        LET diffs == DiffRunes(ToRunes(src), ToRunes(dst))
        IN /\ Len(edits) = Len(diffs)
           /\ \A i \in 1..Len(edits) :
                 /\ edits[i].Start \in RuneBoundaries(src)
                 /\ edits[i].End \in RuneBoundaries(src)
                 /\ edits[i].Start = BytesBefore(ToRunes(src), diffs[i].Start)
                 /\ edits[i].End = BytesBefore(ToRunes(src), diffs[i].End)

\* An edit behind a two-byte rune: its byte offsets are not the rune
\* offsets of the diff.
C20_Witness ==
    /\ producer = "Text" /\ pc = "diffed"
    /\ validUTF8(src) /\ validUTF8(dst) /\ ~isASCII(src)
    /\ \E i \in 1..Len(edits) :
          /\ edits[i].Start > DiffRunes(ToRunes(src), ToRunes(dst))[i].Start
          /\ edits[i].End > edits[i].Start
          /\ edits[i].End < Len(src)

(***************************************************************************)
(* The dispatch of Text and Binary.                                        *)
(***************************************************************************)
\* C21: Text and Binary return nothing for equal inputs; when both inputs
\* have only bytes below 0x80, Text(A, B) is the edit list of the byte path
\* and the same list as Binary(A, B); Binary always returns the list of the
\* byte path; Text returns the list of the character path exactly when
\* the inputs differ and one of them has a byte at or above 0x80.
C21_DispatchEquivalence ==
    (pc = "diffed" /\ producer \in {"Text", "Binary"}) =>
        /\ src = dst => edits = <<>>
        /\ (isASCII(src) /\ isASCII(dst)) =>
              (edits = Text(src, dst) /\ edits = Binary(src, dst))
        /\ (src # dst /\ (producer = "Binary" \/ (isASCII(src) /\ isASCII(dst))))
              => edits = diffASCII(src, dst)
        /\ (src # dst /\ producer = "Text" /\ ~(isASCII(src) /\ isASCII(dst)))
              => edits = diffRunes(ToRunes(src), ToRunes(dst))

\* Text on two different ASCII texts: the list of Binary, two edits long.
C21_Witness ==
    /\ pc = "diffed" /\ producer = "Text"
    /\ isASCII(src) /\ isASCII(dst) /\ src # dst
    /\ Len(edits) >= 2
    /\ edits = Binary(src, dst)

(***************************************************************************)
(* The LCS engine.                                                         *)
(***************************************************************************)
RECURSIVE LongestCommon(_, _)
\* The length of a longest common subsequence of a and b, by cases on
\* their first elements.
LongestCommon(a, b) ==
    IF a = <<>> \/ b = <<>> THEN 0
    ELSE IF Head(a) = Head(b) THEN 1 + LongestCommon(Tail(a), Tail(b))
    ELSE LET l == LongestCommon(Tail(a), b)
             r == LongestCommon(a, Tail(b))
         IN IF l >= r THEN l ELSE r

\* The cost of a diff list: the elements of A it removes and of B it adds.
Cost(ds) ==
    SumOver([i \in 1..Len(ds) |->
                (ds[i].End - ds[i].Start) + (ds[i].ReplEnd - ds[i].ReplStart)],
            Len(ds))

GapA(A, ds, i) ==
    Slice(A, IF i = 0 THEN 0 ELSE ds[i].End,
             IF i = Len(ds) THEN Len(A) ELSE ds[i + 1].Start)

GapB(B, ds, i) ==
    Slice(B, IF i = 0 THEN 0 ELSE ds[i].ReplEnd,
             IF i = Len(ds) THEN Len(B) ELSE ds[i + 1].ReplStart)

\* C23: every diff of the LCS engine lies within A and B and is not empty
\* on both sides, consecutive diffs do not overlap on either side, and the
\* parts of A and B before, between and after the diffs are equal.
C23_DiffListInvariants ==
    pc = "compared" =>
        /\ \A i \in 1..Len(dres) :
              LET d == dres[i]
              IN /\ 0 <= d.Start /\ d.Start <= d.End /\ d.End <= Len(src)
                 /\ 0 <= d.ReplStart /\ d.ReplStart <= d.ReplEnd
                 /\ d.ReplEnd <= Len(dst)
                 /\ (d.End - d.Start) + (d.ReplEnd - d.ReplStart) > 0
        /\ \A i \in 1..(Len(dres) - 1) :
              /\ dres[i].End <= dres[i + 1].Start
              /\ dres[i].ReplEnd <= dres[i + 1].ReplStart
        /\ \A i \in 0..Len(dres) : GapA(src, dres, i) = GapB(dst, dres, i)

\* Two diffs with common elements before, between and after them.
C23_Witness ==
    /\ pc = "compared" /\ Len(dres) = 2
    /\ \A i \in 0..2 : GapA(src, dres, i) # <<>>
    /\ \A i \in 0..2 : GapA(src, dres, i) = GapB(dst, dres, i)

\* C24: for equal inputs the engine returns no diff; for an empty A and a
\* non-empty B the single insertion (0, 0, 0, len(B)); for a non-empty A
\* and an empty B the single deletion (0, len(A), 0, 0); and Binary("", B)
\* is [{0, 0, B}], Binary(A, "") is [{0, len(A), ""}].
C24_EdgeCases ==
    /\ pc = "compared" =>
          /\ src = dst => dres = <<>>
          /\ (src = <<>> /\ dst # <<>>) => dres = <<Diff(0, 0, 0, Len(dst))>>
          /\ (src # <<>> /\ dst = <<>>) => dres = <<Diff(0, Len(src), 0, 0)>>
    /\ (pc = "diffed" /\ producer = "Binary") =>
          /\ src = dst => edits = <<>>
          /\ (src = <<>> /\ dst # <<>>) => edits = <<Edit(0, 0, dst)>>
          /\ (src # <<>> /\ dst = <<>>) => edits = <<Edit(0, Len(src), <<>>)>>

\* Binary of the empty text and a text of full length.
C24_Witness ==
    /\ pc = "diffed" /\ producer = "Binary"
    /\ src = <<>> /\ Len(dst) = MaxSeqLen
    /\ edits = <<Edit(0, 0, dst)>>

(***************************************************************************)
(* The sequence view.                                                      *)
(***************************************************************************)
\* The first k elements of the windows agree.
AgreeFromLeft(k) ==
    \A t \in 0..(k - 1) : At(src, wres.ai + t) = At(dst, wres.bi + t)

\* The last k elements of the windows agree.
AgreeFromRight(k) ==
    \A t \in 0..(k - 1) : At(src, wres.aj - 1 - t) = At(dst, wres.bj - 1 - t)

\* The lengths up to the length of the shorter window.
UpToShorter == 0..min(wres.aj - wres.ai, wres.bj - wres.bi)

\* The greatest number of the set S.
Largest(S) == CHOOSE k \in S : \A m \in S : m <= k

\* C25: on all windows 0 <= ai <= aj <= len(A), 0 <= bi <= bj <= len(B)
\* commonPrefixLen returns the largest k <= min(aj - ai, bj - bi) with
\* A[ai + t] = B[bi + t] for all t < k, commonSuffixLen the largest k with
\* A[aj - 1 - t] = B[bj - 1 - t] for all t < k, and every element read
\* lies within the windows.
C25_CommonPrefixSuffix ==
    pc = "measured" =>
        /\ wres.fn = "commonPrefixLen" => wres.k = Largest({k \in UpToShorter : AgreeFromLeft(k)})
        /\ wres.fn = "commonSuffixLen" => wres.k = Largest({k \in UpToShorter : AgreeFromRight(k)})
        /\ \A r \in wres.reads :
              /\ wres.ai <= r[1] /\ r[1] < wres.aj
              /\ wres.bi <= r[2] /\ r[2] < wres.bj

\* A common suffix of one element, found with two reads, on windows that
\* leave out the start of A and the end of B.
C25_Witness ==
    /\ pc = "measured" /\ wres.fn = "commonSuffixLen"
    /\ wres.ai > 0 /\ wres.bj < Len(dst)
    /\ wres.k = 1 /\ Cardinality(wres.reads) = 2
    /\ wres.k = Largest({k \in UpToShorter : AgreeFromRight(k)})

(***************************************************************************)
(* The engine of package myers.                                            *)
(***************************************************************************)
\* The number of lines an operation deletes or inserts.
OpLines(op) ==
    IF op.Kind = OpDelete THEN op.End - op.Start ELSE op.ReplEnd - op.ReplStart

\* The d at which shortestEditSequence returned: the last round with a
\* saved V.
StoppedAt(trace) ==
    CHOOSE d \in 0..(Len(trace) - 1) :
        /\ At(trace, d) # <<>>
        /\ \A e \in (d + 1)..(Len(trace) - 1) : At(trace, e) = <<>>

\* C26: the operations of myers.Operations delete and insert
\* len(a) + len(b) - 2 * LCS(a, b) lines in all, and shortestEditSequence
\* stops at that d, the smallest at which a diagonal reaches the end of
\* both arrays, with every round before it saved in the trace.
C26_MyersMinimal ==
    pc \in {"operated", "fault"} =>
        LET a == splitLines(src)
            b == splitLines(dst)
            D == Len(a) + Len(b) - 2 * LongestCommon(a, b)
        IN /\ pc = "operated"
           /\ SumOver([i \in 1..Len(ores) |-> OpLines(ores[i])], Len(ores)) = D
           /\ Len(a) + Len(b) > 0 =>
                 /\ StoppedAt(sres.trace) = D
                 /\ \A d \in 0..D : At(sres.trace, d) # <<>>

\* Three lines against three with one in common: four operations' worth
\* of lines, found in round four.
C26_Witness ==
    /\ pc = "operated"
    /\ Len(splitLines(src)) = 3 /\ Len(splitLines(dst)) = 3
    /\ LongestCommon(splitLines(src), splitLines(dst)) = 1
    /\ StoppedAt(sres.trace) = 4
    /\ SumOver([i \in 1..Len(ores) |-> OpLines(ores[i])], Len(ores)) = 4

\* The indexes of V, less the offset, that round d reads and writes on
\* diagonal k: k itself, k + 1 when it goes down at the lower edge, k - 1
\* when it goes right at the upper edge, both when it has to compare.
Neighbours(d, k) ==
    {k} \cup (IF k = -d THEN {k + 1}
              ELSE IF k = d THEN {k - 1}
              ELSE {k - 1, k + 1})

\* The diagonals of round d.
Diagonals(d) == {k \in (-d)..d : (k + d) % 2 = 0}

\* C27: Operations and ComputeEdits end without a run-time fault on all
\* line arrays, empty ones included: shortestEditSequence finds the end of
\* both arrays in a round d <= len(a) + len(b) and does not fall through
\* to its final return of nil; the indexes of V it and backtrack use are
\* within 0..2*(N+M); Operations returns at most len(a) + len(b)
\* operations, with Start <= End <= len(a) and ReplStart <= ReplEnd <=
\* len(b) for the lines inserted; the edits of ComputeEdits lie within
\* the text.
C27_MyersNeverFails ==
    LET a == splitLines(src)
        b == splitLines(dst)
        M == Len(a)
        N == Len(b)
    IN /\ pc # "fault"
       /\ (pc = "operated" /\ M + N > 0) =>
             /\ sres.trace # <<>> /\ Len(sres.trace) = N + M + 1
             /\ sres.offset = N + M
             /\ StoppedAt(sres.trace) <= N + M
             /\ \A d \in 0..StoppedAt(sres.trace) :
                   /\ Len(At(sres.trace, d)) = 2 * (N + M) + 1
                   /\ \A k \in Diagonals(d) : \A i \in Neighbours(d, k) :
                         0 <= i + sres.offset /\ i + sres.offset <= 2 * (N + M)
             /\ LET snakes == backtrack(sres.trace, M, N, sres.offset)
                IN /\ Len(snakes) = Len(sres.trace)
                   /\ \A d \in 1..(Len(snakes) - 1) :
                         At(snakes, d) # <<>> =>
                            LET k == At(snakes, d)[1] - At(snakes, d)[2]
                            IN /\ k \in Diagonals(d)
                               /\ At(snakes, d)[1] \in 0..M
                               /\ At(snakes, d)[2] \in 0..N
       /\ pc = "operated" =>
             /\ Len(ores) <= M + N
             /\ \A i \in 1..Len(ores) :
                   /\ 0 <= ores[i].Start /\ ores[i].Start <= ores[i].End
                   /\ ores[i].End <= M
                   /\ 0 <= ores[i].ReplStart /\ ores[i].ReplStart <= N
                   /\ ores[i].Kind = OpInsert =>
                         /\ ores[i].ReplStart <= ores[i].ReplEnd
                         /\ ores[i].ReplEnd <= N
       /\ (pc = "diffed" /\ producer = "Myers") =>
             \A i \in 1..Len(edits) : InBounds(edits[i], Len(src))

\* Two texts of three lines with no line in common: the last round, and
\* as many operations' worth of lines as there are lines.
C27_Witness ==
    /\ pc = "operated"
    /\ Len(splitLines(src)) = 3 /\ Len(splitLines(dst)) = 3
    /\ StoppedAt(sres.trace) = 6
    /\ ores # <<>>

\* Two operations that one consolidated operation would cover: a Delete
\* that starts at the line where the Delete before it ends, or an Insert
\* at the same line of a whose lines of b follow those of the Insert
\* before it.
Unconsolidated(p, q) ==
    \/ /\ p.Kind = OpDelete /\ q.Kind = OpDelete
       /\ q.Start = p.End
    \/ /\ p.Kind = OpInsert /\ q.Kind = OpInsert
       /\ q.Start = p.Start
       /\ q.ReplStart = p.ReplEnd

\* C28: the list returned by Operations has no Equal operation and is
\* consolidated: no Delete directly follows a Delete that ends where it
\* starts, and no Insert directly follows an Insert at the same line of
\* a whose range of b ends where its own begins.
C28_OperationsConsolidated ==
    pc = "operated" =>
       /\ \A i \in 1..Len(ores) : ores[i].Kind \in {OpDelete, OpInsert}
       /\ \A i \in 1..(Len(ores) - 1) : ~Unconsolidated(ores[i], ores[i + 1])

\* What does hold of the list: no Equal operation, no operation without
\* lines, and the operations in the order of the lines of a and of b.
C28_NoEqualAndOrdered ==
    pc = "operated" =>
       /\ \A i \in 1..Len(ores) :
             /\ ores[i].Kind \in {OpDelete, OpInsert}
             /\ OpLines(ores[i]) >= 1
       /\ \A i \in 1..(Len(ores) - 1) :
             /\ ores[i].End <= ores[i + 1].Start
             /\ ores[i].ReplStart <= ores[i + 1].ReplStart

\* Two Deletes where one would do.
C28_TwoDeletes ==
    /\ pc = "operated"
    /\ \E i \in 1..(Len(ores) - 1) :
          ores[i].Kind = OpDelete /\ Unconsolidated(ores[i], ores[i + 1])

\* Two Inserts at the same line of a, of lines of b that follow one
\* another, and nothing else.
C28_Witness ==
    /\ pc = "operated"
    /\ Len(ores) = 2
    /\ Unconsolidated(ores[1], ores[2])
    /\ ores[1].Kind = OpInsert

\* One call on the caller's script: the source buffer is as it was; the
\* caller's slice changes in SortEdits alone; the slice Validate returns
\* without an error is the caller's own when the script is sorted, and a
\* sorted copy in another array when it is not.
NotMutated ==
    /\ src' = src
    /\ edits' # edits => pc' = "sorted"
    /\ pc' \in {"validated", "applied", "streamed", "expanded"} =>
          edits' = submitted
    /\ (pc' = "validated" /\ vres'.err = ErrNil) =>
          /\ own' = (IF IsSorted(edits) THEN "caller" ELSE "fresh")
          /\ vres'.edits = (IF IsSorted(edits) THEN edits ELSE SortEdits(edits))
    /\ (pc' = "expanded" /\ own' = "caller") =>
          IsSorted(edits) /\ lres'.edits = edits
    /\ pc' = "sorted" => edits' = SortEdits(edits)

\* C29: Validate, Apply, ApplyTo and lineEdits leave the caller's slice of
\* edits (its order and the fields of every edit) and the source buffer
\* as they were, also for an unsorted script, which Validate sorts in a
\* copy, and when lineEdits merges or expands edits; Validate returns the
\* caller's own slice when the script is sorted; SortEdits alone reorders
\* its argument in place.
C29_InputsNotMutated == [][NotMutated]_vars

\* An unsorted script that lineEdits has sorted, merged and expanded, with
\* the caller's slice still in the order it was submitted in.
C29_Witness ==
    /\ pc = "expanded"
    /\ lres.err = ErrNil
    /\ ~IsSorted(submitted)
    /\ edits = submitted
    /\ own = "expanded"
    /\ Len(lres.edits) < Len(edits)
    /\ lres.edits[1].End > SortEdits(edits)[1].End

\* SortEdits has reordered the caller's slice.
C29_SortedInPlace ==
    pc = "sorted" /\ edits # submitted

\* Validate has returned a sorted copy of an unsorted script.
C29_ValidateCopied ==
    /\ pc = "validated" /\ own = "fresh"
    /\ vres.edits # edits /\ edits = submitted

====
